---- MODULE Spec2Model ----
(***************************************************************************)
(* A model of the OVRlay overlay engine (src/OVRlay/OVRlay.cpp), of the    *)
(* shell application that writes the shared overlay state                  *)
(* (src/unnamed/part_000, OverlayForm) and of the host entry points        *)
(* (Initialize, GetLayers, HasFocus).                                      *)
(*                                                                         *)
(* Units.  Lengths are in centimetres (scale 1.0f = 100, MinimizedIconSize *)
(* 0.1f = 10), angles in degrees, a window's opacity in 1/10000 (opacity   *)
(* 1.0f = 10000), so that the float arithmetic of the source is integer    *)
(* arithmetic here.  A pose is either NaNPose or a record of a position    *)
(* <<x, y, z>> and an orientation [yaw, pitch, roll].                      *)
(*                                                                         *)
(* Pointers.  A ComPtr/unique_ptr/handle is modelled by what the code can  *)
(* observe of it (null or not) together with the liveness of its referent: *)
(* quad.ColorTexture is "null", "live" (the window's current swapchain) or *)
(* "dangling" (a swapchain that was destroyed).                            *)
(***************************************************************************)
EXTENDS Integers, Sequences, FiniteSets, TLC

\* ------------------------------------------------------------------ bounds
\* The slots of the shared state that the model runs (the source has
\* OverlayCount = 4 of them, all treated alike).
NumSlots == 2
\* The window/monitor handles the shell can import are 1..MaxHandle.
MaxHandle == 2
\* The host creates at most MaxSessions sessions, numbered from 1.
MaxSessions == 2
\* The host runs at most MaxFrames frames.
MaxFrames == 3
\* What ovr_GetTextureSwapChainLength reports for a swapchain.
SwapChainLength == 2
\* Captured surfaces are k x 1 pixels, k in 1..MaxSurface.
MaxSurface == 2
\* The capture sessions deliver at most MaxCaptured frames over a run.
MaxCaptured == 2
\* The shell performs at most MaxShellOps imports, removals and updates.
MaxShellOps == 3
\* EnumDisplayMonitors counts 0..MaxMonitors monitors.
MaxMonitors == 1

Slots == 0 .. (NumSlots - 1)
Handles == 1 .. MaxHandle
Sides == {0, 1}

\* ------------------------------------------------------- program constants
\* enum class WindowPlacement
WorldLocked == 0
HeadLocked == 1
\* static constexpr float MinimizedIconSize = 0.1f  (in cm)
MinimizedIconSize == 10
\* import_Click: overlay.scale = 1.0f (in cm)
ImportScale == 100
\* import_Click: opacity.Value = 100
ImportOpacity == 100
\* UpdateWindows: window.opacity >= 0.9999f (in 1/10000)
OpaqueThreshold == 9999
\* HandleWindowInteractions: constexpr float MaxDistance = 10.f (in cm)
MaxDistance == 1000

\* ------------------------------------------------------------------- poses
\* A pose whose components are NaN.
NaNPose == [nan |-> TRUE, Orientation |-> [yaw |-> 0, pitch |-> 0, roll |-> 0],
            Position |-> <<0, 0, 0>>]
Vec(x, y, z) == <<x, y, z>>
ZeroVec == <<0, 0, 0>>
VAdd(a, b) == <<a[1] + b[1], a[2] + b[2], a[3] + b[3]>>
VSub(a, b) == <<a[1] - b[1], a[2] - b[2], a[3] - b[3]>>
\* Vector3f::Length() is compared only, so its square stands for it.
LengthSq(a) == a[1] * a[1] + a[2] * a[2] + a[3] * a[3]

IdentityQuat == [yaw |-> 0, pitch |-> 0, roll |-> 0]
Pose(o, p) == [nan |-> FALSE, Orientation |-> o, Position |-> p]
\* OVR::Posef::Identity()
IdentityPose == Pose(IdentityQuat, ZeroVec)
\* OVR::Posef::IsNan(): the shell writes NaN into every component at once and
\* the engine writes whole poses, so a pose is NaN as a whole or not at all.
IsNan(pose) == pose.nan

\* geom::alignToGravity: keeps yaw and pitch, removes roll.
alignToGravity(pose) ==
    IF IsNan(pose) THEN pose
    ELSE Pose([pose.Orientation EXCEPT !.roll = 0], pose.Position)

Sign(n) == IF n > 0 THEN 1 ELSE IF n < 0 THEN -1 ELSE 0

\* geom::facingCamera: the position is kept and the orientation becomes the
\* look-to orientation along (pose.Position - headPose.Position) with up =
\* +Y, which has no roll.  The angles are quantised to the octant of the
\* look direction.
facingCamera(pose, headPose) ==
    LET d == VSub(pose.Position, headPose.Position)
    IN  Pose([yaw |-> 45 * Sign(d[1]), pitch |-> 45 * Sign(d[2]), roll |-> 0],
             pose.Position)

\* OVR::Posef operator*: a * b = Pose(a.Rotation * b.Rotation,
\* a.Rotate(b.Translation) + a.Translation).  Its one use in the engine has
\* a = front, whose rotation is the identity, so a.Rotate is left out.
PoseMul(a, b) ==
    Pose([yaw |-> a.Orientation.yaw + b.Orientation.yaw,
          pitch |-> a.Orientation.pitch + b.Orientation.pitch,
          roll |-> a.Orientation.roll + b.Orientation.roll],
         VAdd(a.Position, b.Position))

\* -------------------------------------------------------------- the state
VARIABLES
    hwndForImportedWindow,  \* OverlayForm: the list of imported handles
    shellOps,               \* how many operations the shell has performed
    m_overlayState,         \* the shared memory: shared::OverlayState[slot]
    om,                     \* the OverlayManager instance (its m_ fields)
    gpu,                    \* the GPU queues and the runtime's resources
    host,                   \* the hooks (dllmain): g_ovrSession, the frames run
                            \* and what the last GetLayers call returned, and
                            \* the thumbstick buttons as the controllers held
                            \* them during that call
    pc                      \* where the shell is in a pushUpdate and the engine
                            \* in an Update, when the two are followed field by
                            \* field (see "field by field" below)

vars == <<hwndForImportedWindow, shellOps, m_overlayState, om, gpu, host, pc>>

\* std::optional and unique_ptr: a sequence that is empty (nullopt, nullptr)
\* or holds the one value.
Null == <<>>
Some(x) == <<x>>
ValueOf(p) == p[1]

\* A slot of the shared memory before the shell ever wrote it (the mapping
\* is zero-filled).  The uint8_t fields are numbers, as in the struct.  The
\* all-zero quaternion of zeroed memory is never used as a rotation and is
\* written as no rotation.
EmptyState ==
    [handle |-> 0, pose |-> Pose(IdentityQuat, ZeroVec),
     scale |-> 0, isMonitor |-> 0, opacity |-> 0, placement |-> 0,
     isInteractable |-> 0, isFrozen |-> 0, isMinimized |-> 0]

\* struct Window, default member initializers; quad{} is zero-initialized,
\* so quad.Header.Type is ovrLayerType_Disabled (0).
NewWindow ==
    [hwnd |-> 0, monitor |-> 0,
     captureWindow |-> Null,
     scale |-> 100, opacity |-> 10000, placement |-> WorldLocked,
     isInteractable |-> TRUE, isFrozen |-> FALSE, isMinimized |-> FALSE,
     hasFocus |-> FALSE,
     swapchain |-> FALSE, swapchainSize |-> <<0, 0>>,
     swapchainImagesOnCompositionDevice |-> 0,
     swapchainImagesOnSubmissionDevice |-> 0,
     quad |-> [Type |-> "Disabled", HeadLocked |-> FALSE,
               ColorTexture |-> "null", QuadPoseCenter |-> Pose(IdentityQuat, ZeroVec),
               QuadSize |-> <<0, 0>>, Viewport |-> <<0, 0>>]]

\* OverlayManager::OverlayManager and the default member initializers.  The
\* file mapping exists or not: isMapped is m_overlayState != nullptr.
NewManager(isMapped) ==
    [mapped |-> isMapped,
     m_ovrSession |-> 0,
     m_compositionDevice |-> FALSE,
     m_cursorSwapchain |-> FALSE,
     m_submissionFenceValue |-> 0,
     m_windows |-> [i \in Slots |-> NewWindow],
     m_sortedWindows |-> <<>>,
     m_lastHeadPose |-> IdentityPose,
     m_lastSideToInteract |-> 0,
     m_lastControllerPoses |-> [s \in Sides |-> IdentityPose],
     m_cursorPose |-> Null,
     m_lastCursorPosition |-> ZeroVec,
     m_windowHovered |-> 0,
     m_isTriggerPressed |-> FALSE,
     m_isThumbstickPressed |-> FALSE,
     m_isDraggingWindow |-> FALSE,
     m_isResizingWindow |-> FALSE]

\* The GPU and the runtime as the engine drives them.
\*   fence        TRUE when the shared fence exists
\*   signaled     the last value a Signal was queued for on the current fence
\*   inFlight     the slots whose swapchain textures are the target of
\*                composition commands the GPU has not executed yet
\*   liveSwapchains, liveCaptures
\*                per slot, how many swapchains / capture sessions were
\*                created for it and not yet destroyed
\*   frameLog     the commands of the last Update, in issue order
\*   released     the releases of shared resources made while commands that
\*                target them were in flight
\*   captured     how many frames the capture sessions have delivered
NewGpu ==
    [fence |-> FALSE, signaled |-> 0, inFlight |-> {},
     liveSwapchains |-> [i \in Slots |-> 0],
     liveCaptures |-> [i \in Slots |-> 0],
     frameLog |-> <<>>,
     released |-> {},
     captured |-> 0]

\* ovrInputState inputState{}: no button, triggers and thumbstick at rest.
\* Buttons is the set of the buttons held; the triggers are in hundredths.
ZeroInputState ==
    [ControllerType |-> 0, TimeInSeconds |-> 0, Buttons |-> {},
     IndexTrigger |-> [s \in {0, 1} |-> 0], HandTrigger |-> [s \in {0, 1} |-> 0],
     Thumbstick |-> <<0, 0>>]

\* input is what the last call of the application to ovr_GetInputState
\* returned.
NewHost ==
    [g_ovrSession |-> 0, frames |-> 0, threw |-> FALSE, layers |-> <<>>,
     injected |-> <<>>, thumb |-> [s \in {0, 1} |-> FALSE],
     input |-> ZeroInputState]

\* Neither program is inside an operation.
\*   shell    the pushUpdate(Import) in progress: the number of the import
\*            and how many fields of it are written (k = 0: none in progress)
\*   imports  how many imports the shell has begun
\*   engine   the Update in progress: at "check" SortWindows is about to test
\*            the handle of the slot, at "open" OpenWindow has read k fields
\*            (seen) of it, at "rest" SortWindows has left its loop with the
\*            list distances; at "check" of slot 0 with nothing listed no
\*            Update is in progress
\* and, to tell the imports apart,
\*   origin   per slot and field, the number of the import that wrote it last
\*   from     the imports whose writes the OpenWindow in progress has read
\*   observed per slot, the engine has read the handle as zero since the last
\*            write of a handle by an import
\*   clean    the imports begun on a slot the engine had observed empty
\*   opened   the imports whose writes the last completed OpenWindow read
NewPc ==
    [shell |-> [id |-> 0, k |-> 0],
     imports |-> 0,
     engine |-> [at |-> "check", slot |-> 0, k |-> 0, seen |-> EmptyState,
                 distances |-> <<>>, from |-> {}],
     origin |-> [i \in Slots |-> [f \in DOMAIN EmptyState |-> 0]],
     observed |-> [i \in Slots |-> FALSE],
     clean |-> {},
     opened |-> {}]

Init ==
    /\ hwndForImportedWindow = <<>>
    /\ shellOps = 0
    /\ m_overlayState = [i \in Slots |-> EmptyState]
    /\ \E isMapped \in BOOLEAN : om = NewManager(isMapped)
    /\ gpu = NewGpu
    /\ host = NewHost
    /\ pc = NewPc

\* ------------------------------------------------- the shell (OverlayForm)
\* struct WindowState: what the four controls of the form hold.  The
\* opacity track bar runs from 1 to 100 and the placement list has entries
\* beyond "Relative to world" (0) and "Relative to head" (1).
WindowState(o, p, f, i) ==
    [opacity |-> o, placement |-> p, isFrozen |-> f, isInteractable |-> i]
\* import_Click, "Set defaults."
ImportDefaults == WindowState(ImportOpacity, WorldLocked, FALSE, TRUE)
ShellStates ==
    {ImportDefaults,
     WindowState(50, HeadLocked, TRUE, FALSE)}

\* Marshalling of a C# bool as UnmanagedType.I1, and uint8_t -> bool.
BoolToByte(b) == IF b THEN 1 ELSE 0
ByteToBool(n) == n # 0

\* syncState, the part shared by Import and Update (lines 169-172).
syncStateControls(overlay, state) ==
    [overlay EXCEPT !.opacity = state.opacity % 256,
                    !.placement = state.placement % 256,
                    !.isFrozen = BoolToByte(state.isFrozen),
                    !.isInteractable = BoolToByte(state.isInteractable)]

\* syncState(ref overlay, handle, state, op, isMonitor): the record the slot
\* holds when the call returns.
syncState(overlay, handle, state, op, isMonitor) ==
    IF op = "Remove" THEN [overlay EXCEPT !.handle = 0]
    ELSE IF op = "Import"
         THEN [syncStateControls(overlay, state) EXCEPT
                  !.pose = NaNPose,
                  !.scale = ImportScale,
                  !.isMinimized = 0,
                  !.isMonitor = BoolToByte(isMonitor),
                  !.handle = handle]
         ELSE syncStateControls(overlay, state)

Range(seq) == {seq[k] : k \in 1 .. Len(seq)}
RemoveAt(seq, index) ==
    [k \in 1 .. (Len(seq) - 1) |-> IF k <= index THEN seq[k] ELSE seq[k + 1]]

\* import_Click -> pushUpdate(Operation.Import).  The handle goes to the end
\* of the list and the slot written is the list index of the new entry.
\* isMonitor is "SelectedIndex < numMonitors", numMonitors being whatever
\* EnumDisplayMonitors counted on the last refresh.  Windows that are
\* already imported are not offered again; monitors are.
ShellImport(handle, numMonitors) ==
    LET index == Len(hwndForImportedWindow)
        isMonitor == index < numMonitors
    IN  /\ shellOps < MaxShellOps
        /\ index < NumSlots
        /\ isMonitor \/ handle \notin Range(hwndForImportedWindow)
        /\ hwndForImportedWindow' = Append(hwndForImportedWindow, handle)
        /\ m_overlayState' =
              [m_overlayState EXCEPT
                  ![index] = syncState(@, handle, ImportDefaults, "Import", isMonitor)]
        /\ shellOps' = shellOps + 1
        /\ UNCHANGED <<om, gpu, host, pc>>

\* opacity_Scroll, placement_SelectedIndexChanged, freeze_CheckedChanged,
\* allowInteractions_CheckedChanged -> pushUpdate(Operation.Update) for the
\* selected entry of the list.
ShellUpdate(index, state) ==
    /\ shellOps < MaxShellOps
    /\ index < Len(hwndForImportedWindow)
    /\ m_overlayState' =
          [m_overlayState EXCEPT
              ![index] = syncState(@, hwndForImportedWindow[index + 1], state,
                                   "Update", FALSE)]
    /\ shellOps' = shellOps + 1
    /\ UNCHANGED <<hwndForImportedWindow, om, gpu, host, pc>>

\* remove_Click: the entry leaves the list (later entries move up) and the
\* slot with the entry's old index gets handle 0.
ShellRemove(index) ==
    /\ shellOps < MaxShellOps
    /\ index < Len(hwndForImportedWindow)
    /\ hwndForImportedWindow' = RemoveAt(hwndForImportedWindow, index)
    /\ m_overlayState' = [m_overlayState EXCEPT ![index].handle = 0]
    /\ shellOps' = shellOps + 1
    /\ UNCHANGED <<om, gpu, host, pc>>

\* ------------------------------------------------------------- the engine
\* The methods of OverlayManager are operators on a "world" record w: the
\* fields of the manager, the shared memory (w.state), the GPU and runtime
\* (w.gpu) and w.threw, which becomes TRUE when a CHECK_HRCMD / CHECK_OVRCMD
\* throws; the statements after a throw do not run.  w.tie is the order in
\* which std::sort leaves equal entries during the call (see SortWindows).
\* w.tested lists the slots whose window a call has run geom::hitTest on and
\* w.interacted those it has called HandleWindowInteractions for, in order.
\* w.fails is the set of slots for whose handle the system refuses to create
\* a capture item during the call (see OpenWindow), and w.opening lists the
\* slots for which the call has run the constructor of CaptureWindow.
World ==
    om @@ [state |-> m_overlayState, gpu |-> gpu, threw |-> FALSE, injected |-> <<>>,
           tie |-> [slot \in Slots |-> slot], tested |-> <<>>, interacted |-> <<>>,
           fails |-> {}, opening |-> <<>>]
ManagerOf(w) == [f \in DOMAIN om |-> w[f]]

\* Window::IsValid
IsValid(window) == window.quad.Type = "Quad" /\ window.captureWindow # Null

\* The runtime's ovr_DestroyTextureSwapChain for the swapchain of a slot,
\* and the release of the textures opened on the composition device: the
\* release is recorded when composition commands that target the textures
\* were still in flight.
ReleaseShared(g, slot, at) ==
    [g EXCEPT !.released = IF slot \in g.inFlight
                           THEN @ \cup {[slot |-> slot, at |-> at]} ELSE @,
              !.inFlight = @ \ {slot}]

\* Window::Clear
Clear(w, slot, at) ==
    LET window == w.m_windows[slot]
        hadShared == window.swapchain \/ window.swapchainImagesOnCompositionDevice > 0
    IN  [w EXCEPT
            !.m_windows[slot].quad.Type = "Disabled",
            !.m_windows[slot].captureWindow = Null,
            !.m_windows[slot].swapchainImagesOnSubmissionDevice = 0,
            !.m_windows[slot].swapchainImagesOnCompositionDevice = 0,
            !.m_windows[slot].swapchain = FALSE,
            !.m_windows[slot].quad.ColorTexture =
                IF window.swapchain /\ @ = "live" THEN "dangling" ELSE @,
            !.gpu =
                [(IF hadShared THEN ReleaseShared(w.gpu, slot, at) ELSE w.gpu) EXCEPT
                    !.liveCaptures[slot] =
                        IF window.captureWindow # Null THEN @ - 1 ELSE @,
                    !.liveSwapchains[slot] = IF window.swapchain THEN @ - 1 ELSE @]]

\* A faulty CloseWindow: it disables the quad and releases nothing.
CloseWindowKeepsResources(w, slot) ==
    [w EXCEPT !.m_windows[slot].quad.Type = "Disabled"]

\* OverlayManager::CloseWindow
CloseWindow(w, slot) == Clear(w, slot, "close")

\* CaptureWindow::CaptureWindow + initialize: a session on the item, an empty
\* frame pool and no captured surface yet.
NewCaptureWindow(handle, isMonitor) ==
    [item |-> handle, isMonitor |-> isMonitor, framePool |-> <<>>,
     m_lastCapturedSurface |-> <<>>]

\* The default pose of OpenWindow: OVR::Posef front = Pose(Identity, {0, 0, -1}).
FrontPose == Pose(IdentityQuat, Vec(0, 0, -100))

\* OverlayManager::OpenWindow.  The constructor of CaptureWindow throws when
\* CreateForWindow / CreateForMonitor fails (CHECK_HRCMD): make_unique then
\* assigns nothing, and the statements after it do not run.
OpenWindow(w, slot) ==
    LET state == w.state[slot]
        hwnd == IF state.isMonitor = 0 THEN state.handle ELSE 0
        monitor == IF state.isMonitor = 0 THEN 0 ELSE state.handle
        placement == state.placement
        pose == IF ~IsNan(state.pose) THEN state.pose
                ELSE IF placement = WorldLocked
                     THEN alignToGravity(PoseMul(FrontPose, w.m_lastHeadPose))
                ELSE IF placement = HeadLocked THEN FrontPose
                ELSE IdentityPose
    IN  IF hwnd = 0 /\ monitor = 0
        THEN [w EXCEPT !.m_windows[slot].hwnd = hwnd,
                       !.m_windows[slot].monitor = monitor]
        ELSE IF slot \in w.fails
        THEN [w EXCEPT !.m_windows[slot].hwnd = hwnd,
                       !.m_windows[slot].monitor = monitor,
                       !.m_windows[slot].quad.Type = "Quad",
                       !.opening = Append(@, slot),
                       !.threw = TRUE]
        ELSE [w EXCEPT
                !.opening = Append(@, slot),
                !.m_windows[slot].hwnd = hwnd,
                !.m_windows[slot].monitor = monitor,
                !.m_windows[slot].quad.Type = "Quad",
                !.m_windows[slot].captureWindow =
                    Some(NewCaptureWindow(state.handle, state.isMonitor # 0)),
                !.gpu.liveCaptures[slot] =
                    (IF w.m_windows[slot].captureWindow # Null THEN @ - 1 ELSE @) + 1,
                !.m_windows[slot].quad.QuadPoseCenter = pose,
                !.m_windows[slot].scale = state.scale,
                !.m_windows[slot].opacity = state.opacity * 100,
                !.m_windows[slot].placement = placement,
                !.m_windows[slot].isInteractable = ByteToBool(state.isInteractable),
                !.m_windows[slot].isFrozen = ByteToBool(state.isFrozen),
                !.m_windows[slot].isMinimized = ByteToBool(state.isMinimized),
                !.m_windows[slot].swapchainSize = <<0, 0>>,
                !.m_windows[slot].swapchain = FALSE,
                !.m_windows[slot].hasFocus = FALSE]

\* SortWindows, "Detect window added/removed": the window of the slot after
\* the test, and whether the slot goes on to the distance list.
DetectWindow(w, slot) ==
    IF ~IsValid(w.m_windows[slot])
    THEN IF w.state[slot].handle = 0 THEN w ELSE OpenWindow(w, slot)
    ELSE IF w.state[slot].handle = 0 THEN CloseWindow(w, slot) ELSE w
IsListed(w, slot) == w.state[slot].handle # 0

\* std::sort with the comparator a.first > b.first.  std::sort is not a stable
\* sort: entries whose distances are equal come out in an order the library
\* chooses.  tie ranks the slots, and stands for that choice: of two entries
\* with equal distances the one whose slot has the lower rank comes first.
\* Over all rankings the results are all the orders std::sort may return.
Ties == {t \in [Slots -> Slots] : \A a, b \in Slots : a # b => t[a] # t[b]}
\* The ranking under which equal entries keep the order of insertion.
SlotOrder == [slot \in Slots |-> slot]
Distance(w, slot) ==
    LengthSq(VSub(w.m_windows[slot].quad.QuadPoseCenter.Position,
                  w.m_lastHeadPose.Position))
SortsBefore(a, b, tie) == a[1] > b[1] \/ (a[1] = b[1] /\ tie[a[2]] < tie[b[2]])
RECURSIVE InsertSorted(_, _, _)
InsertSorted(sorted, entry, tie) ==
    IF sorted = <<>> THEN <<entry>>
    ELSE IF SortsBefore(entry, sorted[Len(sorted)], tie)
         THEN Append(InsertSorted(SubSeq(sorted, 1, Len(sorted) - 1), entry, tie),
                     sorted[Len(sorted)])
         ELSE Append(sorted, entry)
RECURSIVE SortBackToFront(_, _, _)
SortBackToFront(distances, k, tie) ==
    IF k = 0 THEN <<>>
    ELSE InsertSorted(SortBackToFront(distances, k - 1, tie), distances[k], tie)

\* SortWindows, the loop over the slots from slot on; distances is the list
\* built so far.
Seconds(sorted) == [k \in 1 .. Len(sorted) |-> sorted[k][2]]
RECURSIVE SortWindowsFrom(_, _, _)
\* "if (state.handle) distances.push_back(...)": listed is the handle test,
\* made on the handle the iteration read, w the engine after the detection.
ListWindow(w, slot, distances, listed) ==
    SortWindowsFrom(w, slot + 1,
        IF listed THEN Append(distances, <<Distance(w, slot), slot>>)
        ELSE distances)
SortWindowsFrom(w, slot, distances) ==
    IF w.threw THEN w
    ELSE IF slot = NumSlots
    THEN [w EXCEPT !.m_sortedWindows =
                      Seconds(SortBackToFront(distances, Len(distances), w.tie))]
    ELSE ListWindow(DetectWindow(w, slot), slot, distances, IsListed(w, slot))

\* OverlayManager::SortWindows
SortWindows(w) == SortWindowsFrom(w, 0, <<>>)

\* ------------------------------------------------------------ interactions
\* What one Update reads from the tracking/input collaborator, and what the
\* geometry of the frame makes of it:
\*   head        tracking.HeadPose.ThePose
\*   tracked     per hand, HandStatusFlags has PositionValid or OrientationValid
\*   aim         per hand, tracking.HandPoses[side].ThePose
\*   hit         per hand, the slots whose margin-expanded quad the aim ray of
\*               the hand intersects (geom::hitTest)
\*   hitPos      hitPose.Position of the hit
\*   inside      the hit maps strictly inside the pixel bounds of the window
\*   thumb       per hand, input.Buttons has ovrButton_LThumb / ovrButton_RThumb
\*   hand, index per hand, HandTrigger / IndexTrigger > ClickThreshold
\*   thumbstick  input.Thumbstick[side] of the interacting hand, in degrees of
\*               rotation per frame
\*   tie         the order in which std::sort leaves equal entries this frame
\*   fails       the slots for whose handle CreateForWindow / CreateForMonitor
\*               fails this frame
Other(side) == 1 - side

RECURSIVE IsqrtIn(_, _, _)
IsqrtIn(n, lo, hi) ==
    IF lo = hi THEN lo
    ELSE LET mid == (lo + hi + 1) \div 2
         IN  IF mid * mid <= n THEN IsqrtIn(n, mid, hi) ELSE IsqrtIn(n, lo, mid - 1)
\* Vector3f::Length(), to the centimetre.
Length(v) == IsqrtIn(LengthSq(v), 0, LengthSq(v))

Clamp(x, lo, hi) == IF x < lo THEN lo ELSE IF x > hi THEN hi ELSE x

\* geom::hitTest on the quad of the window expanded by the 50 px margin.  A
\* quad whose QuadSize has a zero component has no area (pixelsPerMeter is
\* infinite and the expanded size 0) and is never hit.
hitTest(w, slot, side, in) ==
    /\ in.tracked[side]
    /\ slot \in in.hit[side]
    /\ w.m_windows[slot].quad.QuadSize[1] # 0
    /\ w.m_windows[slot].quad.QuadSize[2] # 0

\* HandleWindowInteractions, "One handed grab: drag the window" with
\* isDraggingWindow set: the new position of the quad.
DragPosition(w, slot, side, in) ==
    LET position == w.m_windows[slot].quad.QuadPoseCenter.Position
        lateral == VSub(in.hitPos, w.m_lastCursorPosition)
        controller == IF in.tracked[side] THEN in.aim[side] ELSE IdentityPose
        lastDistance == Length(VSub(w.m_lastHeadPose.Position,
                                    w.m_lastControllerPoses[side].Position))
        distance == Length(VSub(in.head.Position, controller.Position))
        \* Sensitivity = 0.25f, along the forward axis of the quad
        delta == VAdd(lateral, Vec(0, 0, (lastDistance - distance) \div 4))
        clamped == Vec(Clamp(delta[1], -2, 2), Clamp(delta[2], -2, 2),
                       Clamp(delta[3], -1, 1))
        newPosition == VAdd(position, clamped)
    IN  IF LengthSq(VSub(newPosition, in.head.Position)) < MaxDistance * MaxDistance
        THEN newPosition ELSE position

\* HandleWindowInteractions, "Two handed grab: resize" with isResizingWindow
\* set: the new scale.
ResizeScale(w, slot, in) ==
    LET controller(s) == IF in.tracked[s] THEN in.aim[s] ELSE IdentityPose
        lastLength == Length(VSub(w.m_lastControllerPoses[0].Position,
                                  w.m_lastControllerPoses[1].Position))
        currentLength == Length(VSub(controller(0).Position, controller(1).Position))
    IN  w.m_windows[slot].scale + (currentLength - lastLength)

\* HandleWindowInteractions, the branch taken when the window is not frozen,
\* not minimized and the hand trigger of the interacting hand is held.
GrabWindow(w, slot, side, in, wasThumbstickPressed, isDraggingWindow, isResizingWindow) ==
    LET pose == w.m_windows[slot].quad.QuadPoseCenter
    IN  IF ~in.hand[Other(side)]
        THEN IF in.thumb[side] /\ ~wasThumbstickPressed
             THEN [w EXCEPT !.m_windows[slot].quad.QuadPoseCenter =
                               alignToGravity(facingCamera(pose, in.head))]
             ELSE IF in.index[side]
             THEN [w EXCEPT
                     !.m_windows[slot].quad.QuadPoseCenter =
                         alignToGravity(
                             IF isDraggingWindow
                             THEN Pose(pose.Orientation, DragPosition(w, slot, side, in))
                             ELSE pose),
                     !.m_isDraggingWindow = TRUE]
             ELSE [w EXCEPT !.m_windows[slot].quad.QuadPoseCenter =
                               alignToGravity(
                                   Pose([yaw |-> pose.Orientation.yaw + in.thumbstick[1],
                                         pitch |-> pose.Orientation.pitch - in.thumbstick[2],
                                         roll |-> 0],
                                        pose.Position))]
        ELSE [w EXCEPT !.m_windows[slot].scale =
                           IF isResizingWindow THEN ResizeScale(w, slot, in) ELSE @,
                       !.m_isResizingWindow = TRUE]

\* A faulty pointing branch: it does not check the window boundaries, so a
\* hit in the margin moves the cursor and clicks.
PointAtWindowInMargin(w, slot, side, in) ==
    LET window == w.m_windows[slot]
        isInteractable == ~window.isMinimized /\ window.isInteractable
        moved == IF window.hasFocus
                 THEN Append(w.injected, [call |-> "SetCursorPos", slot |-> slot])
                 ELSE w.injected
    IN  IF ~isInteractable THEN w
        ELSE IF in.index[side] /\ ~w.m_isTriggerPressed
        THEN [w EXCEPT
                !.m_isTriggerPressed = in.index[side],
                !.m_windows[slot].hasFocus = TRUE,
                !.injected =
                    moved
                    \o <<[call |-> "SetForegroundWindow", slot |-> slot]>>
                    \o (IF ~window.hasFocus
                        THEN <<[call |-> "SetCursorPos", slot |-> slot]>> ELSE <<>>)
                    \o <<[call |-> "SendInput", slot |-> slot]>>]
        ELSE [w EXCEPT !.m_isTriggerPressed = in.index[side],
                       !.injected = moved]

\* HandleWindowInteractions, from "const bool isInteractable" on: cursor,
\* focus and click on the desktop window.  w.injected lists the desktop
\* input calls of the frame.
PointAtWindow(w, slot, side, in) ==
    LET window == w.m_windows[slot]
        isInteractable == ~window.isMinimized /\ window.isInteractable
        moved == IF window.hasFocus
                 THEN Append(w.injected, [call |-> "SetCursorPos", slot |-> slot])
                 ELSE w.injected
        wasTriggerPressed == w.m_isTriggerPressed
    IN  IF ~(isInteractable /\ in.inside) THEN w
        ELSE IF in.index[side] /\ ~wasTriggerPressed
        THEN [w EXCEPT
                !.m_isTriggerPressed = in.index[side],
                !.m_windows[slot].hasFocus = TRUE,
                !.injected =
                    moved
                    \o <<[call |-> "SetForegroundWindow", slot |-> slot]>>
                    \o (IF ~window.hasFocus
                        THEN <<[call |-> "SetCursorPos", slot |-> slot]>> ELSE <<>>)
                    \o <<[call |-> "SendInput", slot |-> slot]>>]
        ELSE [w EXCEPT !.m_isTriggerPressed = in.index[side],
                       !.injected = moved]

\* A faulty HandleWindowInteractions: it grabs and minimizes a frozen window
\* like any other.
HandleWindowInteractionsThawed(w, slot, side, in) ==
    LET isDraggingWindow == w.m_isDraggingWindow
        isResizingWindow == w.m_isResizingWindow
        w0 == [w EXCEPT !.m_isDraggingWindow = FALSE, !.m_isResizingWindow = FALSE]
        window == w0.m_windows[slot]
        wasThumbstickPressed == w0.m_isThumbstickPressed
        w1 == [w0 EXCEPT !.m_isThumbstickPressed = in.thumb[side]]
    IN  IF ~window.isMinimized /\ in.hand[side]
        THEN GrabWindow(w1, slot, side, in, wasThumbstickPressed,
                        isDraggingWindow, isResizingWindow)
        ELSE IF in.thumb[side] /\ ~wasThumbstickPressed
        THEN [w1 EXCEPT
                !.m_windows[slot].isMinimized = ~@,
                !.m_windows[slot].quad.QuadPoseCenter =
                    IF window.isMinimized
                    THEN alignToGravity(facingCamera(@, in.head)) ELSE @]
        ELSE PointAtWindow(w1, slot, side, in)

\* OverlayManager::HandleWindowInteractions
HandleWindowInteractions(w, slot, side, in) ==
    LET isDraggingWindow == w.m_isDraggingWindow
        isResizingWindow == w.m_isResizingWindow
        w0 == [w EXCEPT !.m_isDraggingWindow = FALSE, !.m_isResizingWindow = FALSE]
        window == w0.m_windows[slot]
        wasThumbstickPressed == w0.m_isThumbstickPressed
        w1 == [w0 EXCEPT !.m_isThumbstickPressed = in.thumb[side]]
    IN  IF window.isFrozen THEN PointAtWindow(w0, slot, side, in)
        ELSE IF ~window.isMinimized /\ in.hand[side]
        THEN GrabWindow(w1, slot, side, in, wasThumbstickPressed,
                        isDraggingWindow, isResizingWindow)
        ELSE IF in.thumb[side] /\ ~wasThumbstickPressed
        THEN [w1 EXCEPT
                !.m_windows[slot].isMinimized = ~@,
                !.m_windows[slot].quad.QuadPoseCenter =
                    IF window.isMinimized
                    THEN alignToGravity(facingCamera(@, in.head)) ELSE @]
        ELSE PointAtWindow(w1, slot, side, in)

\* HandleInteractions, the hit-testing loop: k is the position of the
\* iterator in m_sortedWindows (the loop walks it from the back and ends at
\* the first hit).  captureWindow->getSize() on a window without a capture
\* session dereferences null: the call does not return.
\* SetCursorForgetsSide is a faulty SetCursor: it sets the cursor pose and
\* leaves m_lastSideToInteract.
SetCursorForgetsSide(w, slot, side, in) ==
    [w EXCEPT !.m_cursorPose =
                  Some(Pose(w.m_windows[slot].quad.QuadPoseCenter.Orientation,
                            in.hitPos))]
SetCursor(w, slot, side, in) ==
    [w EXCEPT !.m_cursorPose =
                  Some(Pose(w.m_windows[slot].quad.QuadPoseCenter.Orientation,
                            in.hitPos)),
              !.m_lastSideToInteract = side]
RECURSIVE HitTestFrom(_, _, _)
HitTestFrom(w, k, in) ==
    IF k = 0 \/ w.m_cursorPose # Null \/ w.threw THEN w
    ELSE LET slot == w.m_sortedWindows[k]
             first == w.m_lastSideToInteract
             side == IF hitTest(w, slot, first, in) THEN first ELSE Other(first)
         IN  IF w.m_windows[slot].captureWindow = Null
             THEN [w EXCEPT !.threw = TRUE]
             ELSE IF hitTest(w, slot, side, in)
             THEN HitTestFrom(
                      SetCursor(HandleWindowInteractions(
                                    [w EXCEPT !.tested = Append(@, slot),
                                              !.interacted = Append(@, slot)],
                                    slot, side, in),
                                slot, side, in),
                      k - 1, in)
             ELSE HitTestFrom(
                      [w EXCEPT !.m_windows[slot].hasFocus = FALSE,
                                !.tested = IF \E s \in Sides : in.tracked[s]
                                           THEN Append(@, slot) ELSE @],
                      k - 1, in)

\* HandleInteractions, the last statements (not reached after a throw):
\* m_lastControllerPoses and m_lastHeadPose.
TrackPoses(w, in) ==
    IF w.threw THEN w
    ELSE [w EXCEPT
            !.m_lastControllerPoses =
                [s \in Sides |-> IF in.tracked[s] THEN in.aim[s] ELSE @[s]],
            !.m_lastHeadPose = in.head]

\* A faulty HandleInteractions: it does not reset m_cursorPose before the
\* hit tests.
HandleInteractionsKeepsCursor(w, in) ==
    TrackPoses(HitTestFrom(
                   [w EXCEPT !.m_lastCursorPosition =
                                 IF w.m_cursorPose # Null
                                 THEN ValueOf(w.m_cursorPose).Position ELSE ZeroVec],
                   Len(w.m_sortedWindows), in),
               in)

\* OverlayManager::HandleInteractions
HandleInteractions(w, in) ==
    TrackPoses(HitTestFrom(
                   [w EXCEPT !.m_lastCursorPosition =
                                 IF w.m_cursorPose # Null
                                 THEN ValueOf(w.m_cursorPose).Position ELSE ZeroVec,
                             !.m_cursorPose = Null],
                   Len(w.m_sortedWindows), in),
               in)

\* ---------------------------------------------------------------- compositing
\* CaptureWindow::getSurface: the capture record after the call; its
\* m_lastCapturedSurface is what the call returns (<<>> is nullptr).
getSurface(capture) ==
    IF capture.framePool # <<>>
    THEN [capture EXCEPT !.m_lastCapturedSurface = capture.framePool,
                         !.framePool = <<>>]
    ELSE capture

\* A faulty rebuild: it creates the new swapchain without destroying the
\* one the window holds.
RebuildSwapchainLeaks(w, slot, size) ==
    [w EXCEPT
        !.gpu.liveSwapchains[slot] = @ + 1,
        !.m_windows[slot].swapchain = TRUE,
        !.m_windows[slot].swapchainImagesOnSubmissionDevice = SwapChainLength,
        !.m_windows[slot].swapchainImagesOnCompositionDevice = SwapChainLength,
        !.m_windows[slot].quad.ColorTexture = "live",
        !.m_windows[slot].swapchainSize = size]

\* UpdateWindows, "Create the swapchain and other resources appropriate for
\* the window" (lines 1117-1165), for a surface of the given size.
RebuildSwapchain(w, slot, size) ==
    LET window == w.m_windows[slot]
        hadShared == window.swapchain \/ window.swapchainImagesOnCompositionDevice > 0
    IN  [w EXCEPT
            !.gpu =
                [(IF hadShared THEN ReleaseShared(w.gpu, slot, "rebuild") ELSE w.gpu)
                    EXCEPT !.liveSwapchains[slot] =
                               (IF window.swapchain THEN @ - 1 ELSE @) + 1],
            !.m_windows[slot].swapchain = TRUE,
            !.m_windows[slot].swapchainImagesOnSubmissionDevice = SwapChainLength,
            !.m_windows[slot].swapchainImagesOnCompositionDevice = SwapChainLength,
            !.m_windows[slot].quad.ColorTexture = "live",
            !.m_windows[slot].swapchainSize = size]

\* UpdateWindows, the copy of the surface into the current swapchain image:
\* the command issued on the composition context.  The opacity is in
\* 1/10000 and the group counts are the integer divisions of the source.
CompositeCommand(window, slot, size) ==
    IF window.opacity >= OpaqueThreshold
    THEN [op |-> "Copy", slot |-> slot]
    ELSE [op |-> "Dispatch", slot |-> slot, x |-> size[1] \div 8,
          y |-> size[2] \div 8, transparentColor |-> <<-1, -1, -1>>,
          alpha |-> window.opacity]

\* TransparencyShaderHlsl, [numthreads(32, 32, 1)]
GroupThreads == 32
\* The pixel positions the threads of a Dispatch command run main() for:
\* SV_DispatchThreadID ranges over groups * numthreads in each dimension.
IsDispatched(command, pos) ==
    pos[1] < command.x * GroupThreads /\ pos[2] < command.y * GroupThreads
\* TransparencyShaderHlsl main(): the alpha written to out_texture[pos] for
\* the colour rgb of in_texture[pos] (1.f is 10000).
ShaderAlpha(command, rgb) ==
    IF command.transparentColor = <<-1, -1, -1>> \/ rgb = command.transparentColor
    THEN command.alpha ELSE 10000

\* A faulty PlaceQuad: the icon of a minimized window grows with the scale.
PlaceQuadScalesIcon(window, rc, headPose) ==
    [window.quad EXCEPT
        !.Viewport = rc,
        !.QuadSize = IF ~window.isMinimized
                     THEN <<window.scale, (window.scale * rc[2]) \div rc[1]>>
                     ELSE <<(MinimizedIconSize * window.scale) \div 100,
                            (MinimizedIconSize * window.scale) \div 100>>,
        !.HeadLocked = (window.placement = HeadLocked),
        !.QuadPoseCenter = IF window.isMinimized /\ window.placement # HeadLocked
                           THEN alignToGravity(facingCamera(@, headPose)) ELSE @]

\* UpdateWindows, from "window.quad.Viewport.Pos" to the end of the loop
\* body: the quad of the window for the extended frame bounds rc.
PlaceQuad(window, rc, headPose) ==
    LET quad1 == [window.quad EXCEPT
                     !.Viewport = rc,
                     !.QuadSize = IF ~window.isMinimized
                                  THEN <<window.scale, (window.scale * rc[2]) \div rc[1]>>
                                  ELSE <<MinimizedIconSize, MinimizedIconSize>>,
                     !.HeadLocked = (window.placement = HeadLocked)]
    IN  IF window.isMinimized /\ window.placement # HeadLocked
        THEN [quad1 EXCEPT !.QuadPoseCenter = alignToGravity(facingCamera(@, headPose))]
        ELSE quad1

\* UpdateWindows, "auto surface = window.captureWindow->getSurface()".
AcquireSurface(w, slot) ==
    [w EXCEPT !.m_windows[slot].captureWindow = Some(getSurface(ValueOf(@)))]
LastSurface(w, slot) ==
    ValueOf(w.m_windows[slot].captureWindow).m_lastCapturedSurface

\* UpdateWindows, "if (!window.swapchain || window.swapchainSize ... )".
EnsureSwapchain(w, slot, size) ==
    IF ~w.m_windows[slot].swapchain \/ w.m_windows[slot].swapchainSize # size
    THEN RebuildSwapchain(w, slot, size) ELSE w

\* UpdateWindows, from DwmGetWindowAttribute to the end of the loop body.
\* DwmGetWindowAttribute fails on the null window handle of a monitor slot
\* and CHECK_HRCMD throws; for a window the extended frame bounds are taken
\* to be the size of the captured surface.
CompositeSurface(w, slot, size) ==
    IF w.m_windows[slot].hwnd = 0 THEN [w EXCEPT !.threw = TRUE]
    ELSE [w EXCEPT
            !.gpu.frameLog = Append(@, CompositeCommand(w.m_windows[slot], slot, size)),
            !.gpu.inFlight = @ \cup {slot},
            !.m_windows[slot].quad = PlaceQuad(w.m_windows[slot], size,
                                               w.m_lastHeadPose)]

\* UpdateWindows, the body of the loop for one window whose surface has
\* been acquired: nothing more when there is no surface yet.
UpdateSurface(w, slot) ==
    IF LastSurface(w, slot) = <<>> THEN w
    ELSE CompositeSurface(EnsureSwapchain(w, slot, LastSurface(w, slot)), slot,
                          LastSurface(w, slot))
UpdateWindow(w, slot) == UpdateSurface(AcquireSurface(w, slot), slot)

RECURSIVE UpdateWindowsFrom(_, _)
UpdateWindowsFrom(w, slot) ==
    IF slot = NumSlots \/ w.threw THEN w
    ELSE UpdateWindowsFrom(
             IF IsValid(w.m_windows[slot]) THEN UpdateWindow(w, slot) ELSE w,
             slot + 1)

\* OverlayManager::UpdateWindows
UpdateWindows(w) == UpdateWindowsFrom(w, 0)

\* ------------------------------------------------------------------ frames
\* A faulty SyncWindow: it pulls, and pushes scale and isMinimized but not
\* the pose.
SyncWindowKeepsPose(w, slot) ==
    [w EXCEPT
        !.state[slot].scale = w.m_windows[slot].scale,
        !.state[slot].isMinimized = BoolToByte(w.m_windows[slot].isMinimized),
        !.m_windows[slot].opacity = w.state[slot].opacity * 100,
        !.m_windows[slot].placement = w.state[slot].placement,
        !.m_windows[slot].isInteractable = ByteToBool(w.state[slot].isInteractable),
        !.m_windows[slot].isFrozen = ByteToBool(w.state[slot].isFrozen)]

\* A faulty SyncWindow: a full mirror, it pushes the window's isFrozen and
\* placement as well, instead of pulling them.
SyncWindowMirrors(w, slot) ==
    [w EXCEPT
        !.state[slot].pose = w.m_windows[slot].quad.QuadPoseCenter,
        !.state[slot].scale = w.m_windows[slot].scale,
        !.state[slot].isMinimized = BoolToByte(w.m_windows[slot].isMinimized),
        !.state[slot].isFrozen = BoolToByte(w.m_windows[slot].isFrozen),
        !.state[slot].placement = w.m_windows[slot].placement,
        !.m_windows[slot].opacity = w.state[slot].opacity * 100,
        !.m_windows[slot].isInteractable = ByteToBool(w.state[slot].isInteractable)]

\* OverlayManager::SyncWindow: push pose, scale and isMinimized to the shared
\* slot, pull opacity, placement, isInteractable and isFrozen from it.
SyncWindow(w, slot) ==
    LET state == w.state[slot]
        window == w.m_windows[slot]
    IN  [w EXCEPT
            !.state[slot].pose = window.quad.QuadPoseCenter,
            !.state[slot].scale = window.scale,
            !.state[slot].isMinimized = BoolToByte(window.isMinimized),
            !.m_windows[slot].opacity = state.opacity * 100,
            !.m_windows[slot].placement = state.placement,
            !.m_windows[slot].isInteractable = ByteToBool(state.isInteractable),
            !.m_windows[slot].isFrozen = ByteToBool(state.isFrozen)]

\* Update, "if (window.swapchain) ovr_CommitTextureSwapChain(...)".
CommitWindow(w, slot) ==
    IF w.m_windows[slot].swapchain
    THEN [w EXCEPT !.gpu.frameLog = Append(@, [op |-> "Commit", slot |-> slot])]
    ELSE w

\* Update, "Commit the state and swapchain images": the loop from slot on.
RECURSIVE CommitFrom(_, _)
CommitFrom(w, slot) ==
    IF slot = NumSlots THEN w
    ELSE IF ~IsValid(w.m_windows[slot]) THEN CommitFrom(w, slot + 1)
    ELSE CommitFrom(CommitWindow(SyncWindow(w, slot), slot), slot + 1)

\* A faulty serialization: the submission context waits for the value
\* signaled by the previous frame.
SerializeCompositionStaleWait(w) ==
    [w EXCEPT
        !.m_submissionFenceValue = @ + 1,
        !.gpu.signaled = w.m_submissionFenceValue + 1,
        !.gpu.frameLog = @ \o <<[op |-> "Signal", value |-> w.m_submissionFenceValue + 1],
                                [op |-> "Wait", value |-> w.m_submissionFenceValue]>>]

\* Update, "Serialize composition work": the Signal on the composition
\* context and the Wait on the submission context.
SerializeComposition(w) ==
    LET value == w.m_submissionFenceValue + 1
    IN  [w EXCEPT
            !.m_submissionFenceValue = value,
            !.gpu.signaled = value,
            !.gpu.frameLog = @ \o <<[op |-> "Signal", value |-> value],
                                    [op |-> "Wait", value |-> value]>>]

\* A faulty Update: it serializes and commits after a throw.
UpdateCommitAnyway(w) == CommitFrom(SerializeComposition(w), 0)

\* Update, the statements after SortWindows; a statement is not reached
\* when an earlier one threw.
UpdateInteract(w, in) == IF w.threw THEN w ELSE HandleInteractions(w, in)
UpdateComposite(w) == IF w.threw THEN w ELSE UpdateWindows(w)
UpdateCommit(w) == IF w.threw THEN w ELSE CommitFrom(SerializeComposition(w), 0)

\* OverlayManager::Update
Update(w, in) ==
    IF ~w.mapped THEN w
    ELSE UpdateCommit(
             UpdateComposite(
                 UpdateInteract(
                     SortWindows([w EXCEPT !.gpu.frameLog = <<>>, !.tie = in.tie,
                                           !.fails = in.fails]),
                     in)))

\* OverlayManager::GetLayers: what the call appends to the list.
GetLayers(w) ==
    [k \in 1 .. Len(w.m_sortedWindows) |->
        [layer |-> "window", slot |-> w.m_sortedWindows[k]]]
    \o (IF w.m_cursorPose # Null
        THEN <<[layer |-> "cursor",
                HeadLocked |-> (w.m_windows[w.m_windowHovered].placement = HeadLocked)]>>
        ELSE <<>>)

\* OverlayManager::HasFocus
HasFocus == om.m_cursorPose # Null

\* OverlayManager::FlushCompositionDevice: Signal, then block until the fence
\* reaches the value; nothing is in flight on the composition queue then.
FlushCompositionDevice(w) ==
    LET value == w.m_submissionFenceValue + 1
    IN  [w EXCEPT !.m_submissionFenceValue = value,
                  !.gpu.signaled = value,
                  !.gpu.inFlight = {}]

\* SetSubmissionSession, "for (auto& window : m_windows)
\* window.Initialize(session, dispatchTable)": Initialize calls Clear.
RECURSIVE InitializeWindowsFrom(_, _)
InitializeWindowsFrom(w, slot) ==
    IF slot = NumSlots THEN w
    ELSE InitializeWindowsFrom(Clear(w, slot, "reinit"), slot + 1)

\* A faulty InitializeCompositionResources: it starts m_submissionFenceValue
\* again at the initial value of the new fence.
InitializeCompositionResourcesResetsValue(w) ==
    [w EXCEPT !.m_compositionDevice = TRUE,
              !.gpu.fence = TRUE,
              !.gpu.signaled = 0,
              !.m_submissionFenceValue = 0,
              !.m_cursorSwapchain = TRUE]

\* OverlayManager::InitializeCompositionResources: the composition device, a
\* new fence with value 0 and the cursor swapchain.
InitializeCompositionResources(w) ==
    [w EXCEPT !.m_compositionDevice = TRUE,
              !.gpu.fence = TRUE,
              !.gpu.signaled = 0,
              !.m_cursorSwapchain = TRUE]

\* A faulty SetSubmissionSession: it does not test m_overlayState.
SetSubmissionSessionUnmapped(w, session) ==
    InitializeCompositionResources(
        InitializeWindowsFrom(
            [(IF w.m_compositionDevice THEN FlushCompositionDevice(w) ELSE w)
                EXCEPT !.m_cursorSwapchain = FALSE, !.m_ovrSession = session],
            0))

\* OverlayManager::SetSubmissionSession
SetSubmissionSession(w, session) ==
    IF ~w.mapped THEN w
    ELSE InitializeCompositionResources(
             InitializeWindowsFrom(
                 [(IF w.m_compositionDevice THEN FlushCompositionDevice(w) ELSE w)
                     EXCEPT !.m_cursorSwapchain = FALSE, !.m_ovrSession = session],
                 0))

\* --------------------------------------------------------------- the inputs
Both(a, b) == [s \in Sides |-> IF s = 0 THEN a ELSE b]
\* A frame in which no hand is tracked.
NoHands ==
    [head |-> IdentityPose, tracked |-> Both(FALSE, FALSE),
     aim |-> Both(IdentityPose, IdentityPose), hit |-> Both({}, {}),
     hitPos |-> ZeroVec, inside |-> FALSE, thumb |-> Both(FALSE, FALSE),
     hand |-> Both(FALSE, FALSE), index |-> Both(FALSE, FALSE),
     thumbstick |-> <<0, 0>>, tie |-> SlotOrder, fails |-> {}]
\* The left hand aims at the window of a slot, at hitPos.
LeftAims(slot, hitPos) ==
    [NoHands EXCEPT !.tracked = Both(TRUE, FALSE), !.hit = Both({slot}, {}),
                    !.hitPos = hitPos]
HitA == Vec(0, 0, -100)
\* The gestures of the left hand on a window: clicking inside it and
\* pressing the thumbstick.
Gestures(slot) ==
    {[LeftAims(slot, HitA) EXCEPT !.inside = TRUE, !.index = Both(TRUE, FALSE)],
     [LeftAims(slot, HitA) EXCEPT !.thumb = Both(TRUE, FALSE)]}
\* The frames the host runs: a gesture, and an outcome of std::sort.
BaseInputs == {NoHands} \cup UNION {Gestures(slot) : slot \in Slots}
FrameInputs == {[in EXCEPT !.tie = tie] : in \in BaseInputs, tie \in Ties}

\* ---------------------------------------------------------------- the actions
NewSession(session) == session + 1

StoreWorld(w) ==
    /\ om' = ManagerOf(w)
    /\ m_overlayState' = w.state
    /\ gpu' = w.gpu

\* hook_CreateTextureSwapChainDX: OVRlay::Initialize for a session that is
\* not the current one, then "g_ovrSession = session".
Initialize ==
    /\ host.g_ovrSession < MaxSessions
    /\ StoreWorld(SetSubmissionSession(World, NewSession(host.g_ovrSession)))
    /\ host' = [host EXCEPT !.g_ovrSession = NewSession(@)]
    /\ UNCHANGED <<hwndForImportedWindow, shellOps, pc>>

\* hook_EndFrame / hook_SubmitFrame, "if (g_ovrSession)":
\* OVRlay::GetLayers(ovrTime, layers), that is Update, then
\* OverlayManager::GetLayers unless Update threw.
GetLayersReturns(w, in) ==
    /\ StoreWorld(w)
    /\ host' = [g_ovrSession |-> host.g_ovrSession,
                frames |-> host.frames + 1,
                threw |-> w.threw,
                layers |-> IF w.threw THEN <<>> ELSE GetLayers(w),
                injected |-> w.injected,
                thumb |-> in.thumb,
                input |-> host.input]
GetLayersCall(in) ==
    /\ host.frames < MaxFrames
    /\ host.g_ovrSession # 0
    /\ GetLayersReturns(Update(World, in), in)
    /\ UNCHANGED <<hwndForImportedWindow, shellOps, pc>>

\* The capture session of a slot delivers a frame into its frame pool (the
\* pool has two buffers and the engine holds one as m_lastCapturedFrame).
FrameArrived(slot, size) ==
    /\ gpu.captured < MaxCaptured
    /\ om.m_windows[slot].captureWindow # Null
    /\ ValueOf(om.m_windows[slot].captureWindow).framePool = <<>>
    /\ om' = [om EXCEPT !.m_windows[slot].captureWindow[1].framePool = size]
    /\ gpu' = [gpu EXCEPT !.captured = @ + 1]
    /\ UNCHANGED <<hwndForImportedWindow, shellOps, m_overlayState, host, pc>>

\* The GPU executes the commands queued on the composition context.
GpuProgress ==
    /\ gpu.inFlight # {}
    /\ gpu' = [gpu EXCEPT !.inFlight = {}]
    /\ UNCHANGED <<hwndForImportedWindow, shellOps, m_overlayState, om, host, pc>>

SurfaceSizes == {<<k, 1>> : k \in 1 .. MaxSurface}

Next ==
    \/ \E handle \in Handles, numMonitors \in 0 .. MaxMonitors :
          ShellImport(handle, numMonitors)
    \/ \E index \in Slots, state \in ShellStates : ShellUpdate(index, state)
    \/ \E index \in Slots : ShellRemove(index)
    \/ Initialize
    \/ \E in \in FrameInputs : GetLayersCall(in)
    \/ \E slot \in Slots, size \in SurfaceSizes : FrameArrived(slot, size)
    \/ GpuProgress

Spec == Init /\ [][Next]_vars

\* ------------------------------------------- a run of window interactions
\* A second specification follows one or two imported windows through more
\* frames and more gestures than Spec does: the head moves and turns, a hand
\* points, presses the thumbstick with or without the hand trigger, and both
\* hands grab a window to resize it.
\* The host runs at most MaxInteractFrames frames in it.
MaxInteractFrames == 5

\* The head away from the origin of the tracking space and turned a quarter
\* turn to the left (positive yaw).
HeadTurned == Pose([yaw |-> 90, pitch |-> 0, roll |-> 0], Vec(150, 0, 0))
\* The left hand points at the window of a slot.
Hover(slot) == LeftAims(slot, HitA)
\* Both hands hold a window by the hand triggers, apart centimetres apart.
TwoHanded(slot, apart) ==
    [NoHands EXCEPT !.tracked = Both(TRUE, TRUE),
                    !.aim = Both(Pose(IdentityQuat, Vec(0, 0, 0)),
                                 Pose(IdentityQuat, Vec(apart, 0, 0))),
                    !.hit = Both({slot}, {slot}),
                    !.hitPos = HitA,
                    !.hand = Both(TRUE, TRUE)]
\* The head is turned away and the aim ray of the left hand passes through
\* the quads of all the windows.
HoverAll ==
    [NoHands EXCEPT !.head = HeadTurned, !.tracked = Both(TRUE, FALSE),
                    !.hit = Both(Slots, {}), !.hitPos = HitA]
\* The gestures of one hand on the window of a slot.
InteractGestures(slot) ==
    {Hover(slot),
     [Hover(slot) EXCEPT !.thumb = Both(TRUE, FALSE)],
     [Hover(slot) EXCEPT !.thumb = Both(TRUE, FALSE), !.hand = Both(TRUE, FALSE)]}
\* The frames of the run: no hand tracked, with the head at the origin or
\* away from it; the left thumbstick pressed while the hand points at no
\* window; the gestures of one hand on each window; the two-handed grab of
\* the first window, with the hands at two distances; one ray through all
\* the windows.
InteractInputs ==
    {NoHands,
     [NoHands EXCEPT !.head = HeadTurned],
     HoverAll,
     [NoHands EXCEPT !.tracked = Both(TRUE, FALSE), !.thumb = Both(TRUE, FALSE)],
     TwoHanded(0, 20),
     TwoHanded(0, 40)}
    \cup UNION {InteractGestures(slot) : slot \in Slots}

\* The user sets the windows up in the shell before the host runs its first
\* frame.
\* import_Click for a window (no monitor is listed): the handle of the k-th
\* window the shell imports is k.
InteractImport ==
    /\ host.frames = 0
    /\ ShellImport(Len(hwndForImportedWindow) + 1, 0)

\* placement_SelectedIndexChanged and freeze_CheckedChanged, with the last
\* entry of the list selected.
InteractUpdate ==
    /\ host.frames = 0
    /\ ShellUpdate(Len(hwndForImportedWindow) - 1,
                   WindowState(50, HeadLocked, TRUE, FALSE))

\* hook_EndFrame / hook_SubmitFrame, as GetLayersCall.
InteractCall(in) ==
    /\ host.frames < MaxInteractFrames
    /\ host.g_ovrSession # 0
    /\ GetLayersReturns(Update(World, in), in)
    /\ UNCHANGED <<hwndForImportedWindow, shellOps, pc>>

NextInteract ==
    \/ InteractImport
    \/ InteractUpdate
    \/ Initialize
    \/ \E in \in InteractInputs : InteractCall(in)
    \/ \E slot \in Slots : FrameArrived(slot, <<MaxSurface, 1>>)

\* The engine of the run is mapped.
InitInteract == Init /\ om.mapped

SpecInteract == InitInteract /\ [][NextInteract]_vars

\* ------------------------------------------- every byte of the opacity field
\* A third specification runs the engine over every value the uint8_t
\* opacity field of a shared slot can hold.  The engine reads the field in
\* OpenWindow and SyncWindow without a range check; the shell's track bar
\* is one writer of the file mapping and stores 1..100.
\* uint8_t opacity: the largest value of the field.
MaxByte == 255
\* The window of the run delivers surfaces of MaxSurface x 1 pixels or of
\* LargeSurface x LargeSurface pixels.
LargeSurface == 16
OpacitySurfaces == {<<MaxSurface, 1>>, <<LargeSurface, LargeSurface>>}

\* The shell imports window 1 into slot 0.
OpacityImport ==
    /\ hwndForImportedWindow = <<>>
    /\ ShellImport(1, 0)

\* A writer of the file mapping stores a byte in the opacity field of the
\* imported slot, once.
OpacityWritten(byte) ==
    /\ shellOps = 1
    /\ hwndForImportedWindow # <<>>
    /\ m_overlayState' = [m_overlayState EXCEPT ![0].opacity = byte]
    /\ shellOps' = shellOps + 1
    /\ UNCHANGED <<hwndForImportedWindow, om, gpu, host, pc>>

NextOpacity ==
    \/ OpacityImport
    \/ \E byte \in 0 .. MaxByte : OpacityWritten(byte)
    \/ Initialize
    \/ GetLayersCall(NoHands)
    \/ \E size \in OpacitySurfaces : FrameArrived(0, size)

SpecOpacity == InitInteract /\ [][NextOpacity]_vars

\* ------------------------------------------------- pointing at one window
\* A fourth specification follows the left hand pointing at the one window
\* of slot 0: inside its pixel bounds or in the margin around them, with the
\* index trigger, the hand trigger or the thumbstick button held.
\* The host runs at most MaxPointFrames frames in it.
MaxPointFrames == 5

\* A second hit position, 2 cm to the right of HitA and 1 cm above it.
HitB == Vec(2, 1, -100)
\* The left hand points at the window of slot 0.
Point(hitPos, isInside, index, hand, thumb) ==
    [LeftAims(0, hitPos) EXCEPT !.inside = isInside,
                                !.index = Both(index, FALSE),
                                !.hand = Both(hand, FALSE),
                                !.thumb = Both(thumb, FALSE)]
\* The frames of the run: no hand tracked; the hand hovers inside the window
\* or in its margin; the index trigger is held inside or in the margin; the
\* hand trigger and the index trigger are held (a drag) at two positions;
\* the thumbstick button is held.
PointInputs ==
    {NoHands,
     Point(HitA, TRUE, FALSE, FALSE, FALSE),
     Point(HitA, FALSE, FALSE, FALSE, FALSE),
     Point(HitA, TRUE, TRUE, FALSE, FALSE),
     Point(HitA, FALSE, TRUE, FALSE, FALSE),
     Point(HitA, TRUE, TRUE, TRUE, FALSE),
     Point(HitB, TRUE, TRUE, TRUE, FALSE),
     Point(HitA, TRUE, FALSE, FALSE, TRUE)}

\* What the user sets in the shell before the first frame: the window
\* frozen, or not interactable.
PointStates ==
    {WindowState(ImportOpacity, WorldLocked, TRUE, TRUE),
     WindowState(ImportOpacity, WorldLocked, FALSE, FALSE)}

PointImport ==
    /\ host.frames = 0
    /\ hwndForImportedWindow = <<>>
    /\ ShellImport(1, 0)

PointUpdate(state) ==
    /\ host.frames = 0
    /\ shellOps < 2
    /\ ShellUpdate(0, state)

\* hook_EndFrame / hook_SubmitFrame, as GetLayersCall.
PointCall(in) ==
    /\ host.frames < MaxPointFrames
    /\ host.g_ovrSession # 0
    /\ GetLayersReturns(Update(World, in), in)
    /\ UNCHANGED <<hwndForImportedWindow, shellOps, pc>>

NextPoint ==
    \/ PointImport
    \/ \E state \in PointStates : PointUpdate(state)
    \/ Initialize
    \/ \E in \in PointInputs : PointCall(in)
    \/ FrameArrived(0, <<MaxSurface, 1>>)

SpecPoint == InitInteract /\ [][NextPoint]_vars

\* ------------------------------------------ capture items that are refused
\* A fifth specification lets the system refuse the capture item of a
\* window (a handle that is no longer a window, a window that cannot be
\* captured): IGraphicsCaptureItemInterop::CreateForWindow then returns a
\* failure and CHECK_HRCMD throws out of the constructor of CaptureWindow.
\* The host runs at most MaxCaptureFrames frames in it.
MaxCaptureFrames == 4

\* The frames of the run: no hand is tracked, and the capture items of any
\* set of slots are refused.
CaptureInputs == {[NoHands EXCEPT !.fails = fails] : fails \in SUBSET Slots}

\* import_Click for a window: the handle of the k-th window is k.
CaptureImport == ShellImport(Len(hwndForImportedWindow) + 1, 0)

\* hook_EndFrame / hook_SubmitFrame, as GetLayersCall.
CaptureCall(in) ==
    /\ host.frames < MaxCaptureFrames
    /\ host.g_ovrSession # 0
    /\ GetLayersReturns(Update(World, in), in)
    /\ UNCHANGED <<hwndForImportedWindow, shellOps, pc>>

NextCapture ==
    \/ CaptureImport
    \/ Initialize
    \/ \E in \in CaptureInputs : CaptureCall(in)
    \/ \E slot \in Slots : FrameArrived(slot, <<MaxSurface, 1>>)

SpecCapture == InitInteract /\ [][NextCapture]_vars

\* ------------------------------------------------- the application's input
\* A ninth specification has the application read the controllers through
\* the hooked ovr_GetInputState between the frames, with one window that the
\* left hand points at or not.  The host runs at most MaxInputFrames frames
\* in it.
MaxInputFrames == 4

\* ovrControllerType_Touch
ControllerTouch == 3
\* constexpr float ClickThreshold = 0.75f, in hundredths.
ClickThreshold == 75

\* What the runtime's ovr_GetInputState returns: nothing held, the left
\* thumbstick button held, the left index trigger pulled, the left hand
\* trigger pulled.
Held(time, buttons, indexTrigger, handTrigger) ==
    [ControllerType |-> ControllerTouch, TimeInSeconds |-> time,
     Buttons |-> buttons,
     IndexTrigger |-> [s \in {0, 1} |-> IF s = 0 THEN indexTrigger ELSE 0],
     HandTrigger |-> [s \in {0, 1} |-> IF s = 0 THEN handTrigger ELSE 0],
     Thumbstick |-> <<0, 0>>]
RuntimeInputs ==
    {Held(1, {}, 0, 0), Held(2, {"LThumb"}, 0, 0), Held(1, {}, 100, 0),
     Held(2, {}, 0, 100)}

\* A faulty hook: it blocks the input whether an overlay has the focus or
\* not.
hook_GetInputStateAlways(inputState) ==
    IF host.g_ovrSession # 0
    THEN [ZeroInputState EXCEPT !.ControllerType = inputState.ControllerType,
                                !.TimeInSeconds = inputState.TimeInSeconds]
    ELSE inputState

\* hook_GetInputState, for a call the runtime answers with success: the
\* state the application gets.
hook_GetInputState(inputState) ==
    IF host.g_ovrSession # 0 /\ HasFocus
    THEN [ZeroInputState EXCEPT !.ControllerType = inputState.ControllerType,
                                !.TimeInSeconds = inputState.TimeInSeconds]
    ELSE inputState

\* InstallOVRlayHooks: "g_dispatchTable.ovr_GetInputState =
\* g_original_GetInputState", the function the engine calls.
DispatchTable == [ovr_GetInputState |-> "g_original_GetInputState"]
\* A call of ovr_GetInputState through a function pointer.
CallGetInputState(target, inputState) ==
    IF target = "hook_GetInputState" THEN hook_GetInputState(inputState)
    ELSE inputState

\* HandleWindowInteractions, "Read the buttons state": the frame the engine
\* makes of the state it reads through its dispatch table.
InputOf(base, inputState) ==
    [base EXCEPT
        !.thumb = Both("LThumb" \in inputState.Buttons, "RThumb" \in inputState.Buttons),
        !.hand = [s \in Sides |-> inputState.HandTrigger[s] > ClickThreshold],
        !.index = [s \in Sides |-> inputState.IndexTrigger[s] > ClickThreshold]]
EngineInput(base, inputState) ==
    InputOf(base, CallGetInputState(DispatchTable.ovr_GetInputState, inputState))

\* The application calls ovr_GetInputState.
AppGetInputState(inputState) ==
    /\ host' = [host EXCEPT !.input = hook_GetInputState(inputState)]
    /\ UNCHANGED <<hwndForImportedWindow, shellOps, m_overlayState, om, gpu, pc>>

\* hook_EndFrame / hook_SubmitFrame, as GetLayersCall, with the controllers
\* in the given state.
InputCall(base, inputState) ==
    /\ host.frames < MaxInputFrames
    /\ host.g_ovrSession # 0
    /\ GetLayersReturns(Update(World, EngineInput(base, inputState)),
                        EngineInput(base, inputState))
    /\ UNCHANGED <<hwndForImportedWindow, shellOps, pc>>

NextInput ==
    \/ PointImport
    \/ Initialize
    \/ \E inputState \in RuntimeInputs : AppGetInputState(inputState)
    \/ \E base \in {NoHands, LeftAims(0, HitA)}, inputState \in RuntimeInputs :
          InputCall(base, inputState)
    \/ FrameArrived(0, <<MaxSurface, 1>>)

SpecInput == InitInteract /\ [][NextInput]_vars

\* ------------------------------------------------------------- two hands
\* A seventh specification points both hands at two windows in every
\* combination, with no button held.  The host runs at most MaxHandFrames
\* frames in it.
MaxHandFrames == 5

\* What a hand does in a frame: it is not tracked (Null), or it is tracked
\* and its aim ray passes through the quads of a set of windows.
HandStates == {Null} \cup {Some(slots) : slots \in SUBSET Slots}
Aims(left, right) ==
    [NoHands EXCEPT
        !.tracked = Both(left # Null, right # Null),
        !.hit = Both(IF left # Null THEN ValueOf(left) ELSE {},
                     IF right # Null THEN ValueOf(right) ELSE {}),
        !.hitPos = HitA]
HandInputs == {Aims(left, right) : left \in HandStates, right \in HandStates}

\* hook_EndFrame / hook_SubmitFrame, as GetLayersCall.
HandCall(in) ==
    /\ host.frames < MaxHandFrames
    /\ host.g_ovrSession # 0
    /\ GetLayersReturns(Update(World, in), in)
    /\ UNCHANGED <<hwndForImportedWindow, shellOps, pc>>

NextHand ==
    \/ InteractImport
    \/ Initialize
    \/ \E in \in HandInputs : HandCall(in)
    \/ \E slot \in Slots : FrameArrived(slot, <<MaxSurface, 1>>)

SpecHand == InitInteract /\ [][NextHand]_vars

\* -------------------------------------------------------- field by field
\* The shell and the engine are two processes on one file mapping, without
\* a lock.  An eighth specification follows a pushUpdate(Import) one field
\* write at a time and the loop of SortWindows one read of the shared slot
\* at a time, in every interleaving.  The host runs at most MaxFieldFrames
\* frames in it.
MaxFieldFrames == 3

\* syncState, Operation.Import: the fields in the order of the assignments.
ImportOrderHandleFirst ==
    <<"handle", "opacity", "placement", "isFrozen", "isInteractable", "pose",
      "scale", "isMinimized", "isMonitor">>
ImportOrder ==
    <<"opacity", "placement", "isFrozen", "isInteractable", "pose", "scale",
      "isMinimized", "isMonitor", "handle">>
\* OpenWindow: the fields of the slot in the order it reads them.
OpenOrder ==
    <<"isMonitor", "handle", "pose", "scale", "opacity", "placement",
      "isInteractable", "isFrozen", "isMinimized">>

\* import_Click and pushUpdate(Operation.Import), one assignment of
\* syncState: the first one also adds the entry to the list.  The handle of
\* the n-th import is n.
FieldImport ==
    LET begins == pc.shell.k = 0
        id == IF begins THEN pc.imports + 1 ELSE pc.shell.id
        index == IF begins THEN Len(hwndForImportedWindow)
                 ELSE Len(hwndForImportedWindow) - 1
        field == ImportOrder[pc.shell.k + 1]
    IN  /\ begins => shellOps < MaxShellOps /\ index < NumSlots
        /\ hwndForImportedWindow' =
              IF begins THEN Append(hwndForImportedWindow, id)
              ELSE hwndForImportedWindow
        /\ shellOps' = IF begins THEN shellOps + 1 ELSE shellOps
        /\ m_overlayState' =
              [m_overlayState EXCEPT
                  ![index][field] =
                      syncState(m_overlayState[index], id, ImportDefaults,
                                "Import", FALSE)[field]]
        /\ pc' = [pc EXCEPT
                    !.shell = IF pc.shell.k + 1 = Len(ImportOrder)
                              THEN [id |-> 0, k |-> 0]
                              ELSE [id |-> id, k |-> pc.shell.k + 1],
                    !.imports = IF begins THEN id ELSE @,
                    !.origin[index][field] = id,
                    !.observed[index] = IF field = "handle" THEN FALSE ELSE @,
                    !.clean = IF begins /\ pc.observed[index]
                              THEN @ \cup {id} ELSE @]
        /\ UNCHANGED <<om, gpu, host>>

\* remove_Click, between two pushUpdate calls.
FieldRemove(index) ==
    /\ pc.shell.k = 0
    /\ ShellRemove(index)

\* SortWindows goes on to the next slot, or leaves its loop.
NextSlot(engine, distances) ==
    [at |-> IF engine.slot + 1 = NumSlots THEN "rest" ELSE "check",
     slot |-> IF engine.slot + 1 = NumSlots THEN 0 ELSE engine.slot + 1,
     k |-> 0, seen |-> EmptyState, distances |-> distances, from |-> {}]
\* "distances.push_back(...)" for the slot of the iteration.
Listed(w, engine) ==
    Append(engine.distances, <<Distance(w, engine.slot), engine.slot>>)

\* SortWindows, "Detect window added/removed": the test of the handle of the
\* slot.  OpenWindow, if it is called, reads the slot again.
FieldCheck ==
    LET slot == pc.engine.slot
        handle == m_overlayState[slot].handle
    IN  /\ pc.engine.at = "check"
        /\ host.g_ovrSession # 0
        /\ slot = 0 => host.frames < MaxFieldFrames
        /\ IF ~IsValid(om.m_windows[slot]) /\ handle # 0
           THEN /\ pc' = [pc EXCEPT !.engine.at = "open"]
                /\ UNCHANGED <<om, gpu>>
           ELSE /\ om' = ManagerOf(DetectWindow(World, slot))
                /\ gpu' = DetectWindow(World, slot).gpu
                /\ pc' = [pc EXCEPT
                            !.engine =
                                NextSlot(@, IF handle # 0
                                            THEN Listed(DetectWindow(World, slot), @)
                                            ELSE @.distances),
                            !.observed[slot] = IF handle = 0 THEN TRUE ELSE @]
        /\ UNCHANGED <<hwndForImportedWindow, shellOps, m_overlayState, host>>

\* OpenWindow with the values it has read from the slot.
OpenWindowWith(w, slot, seen) ==
    [OpenWindow([w EXCEPT !.state[slot] = seen], slot) EXCEPT !.state = w.state]

\* OpenWindow, one read of the shared slot.  It returns after the handle
\* when the handle is zero, and after the last field; SortWindows then
\* lists the slot.
FieldRead ==
    LET slot == pc.engine.slot
        field == OpenOrder[pc.engine.k + 1]
        seen == [pc.engine.seen EXCEPT ![field] = m_overlayState[slot][field]]
        from == pc.engine.from \cup {pc.origin[slot][field]}
        returns == (field = "handle" /\ seen.handle = 0)
                   \/ pc.engine.k + 1 = Len(OpenOrder)
    IN  /\ pc.engine.at = "open"
        /\ IF returns
           THEN /\ om' = ManagerOf(OpenWindowWith(World, slot, seen))
                /\ gpu' = OpenWindowWith(World, slot, seen).gpu
                /\ pc' = [pc EXCEPT
                            !.engine =
                                NextSlot(@, Listed(OpenWindowWith(World, slot, seen), @)),
                            !.opened = IF seen.handle # 0 THEN from ELSE @]
           ELSE /\ pc' = [pc EXCEPT !.engine.k = @ + 1,
                                    !.engine.seen = seen,
                                    !.engine.from = from]
                /\ UNCHANGED <<om, gpu>>
        /\ UNCHANGED <<hwndForImportedWindow, shellOps, m_overlayState, host>>

\* SortWindows after its loop, and the rest of Update and of GetLayers.
FieldRest ==
    /\ pc.engine.at = "rest"
    /\ GetLayersReturns(
           UpdateCommit(UpdateComposite(UpdateInteract(
               [World EXCEPT
                   !.gpu.frameLog = <<>>,
                   !.m_sortedWindows =
                       Seconds(SortBackToFront(pc.engine.distances,
                                               Len(pc.engine.distances),
                                               SlotOrder))],
               NoHands))),
           NoHands)
    /\ pc' = [pc EXCEPT !.engine = NewPc.engine]
    /\ UNCHANGED <<hwndForImportedWindow, shellOps>>

\* hook_CreateTextureSwapChainDX, between two frames.
FieldInitialize ==
    /\ pc.engine = NewPc.engine
    /\ Initialize

NextField ==
    \/ FieldImport
    \/ \E index \in Slots : FieldRemove(index)
    \/ FieldInitialize
    \/ FieldCheck
    \/ FieldRead
    \/ FieldRest

SpecField == InitInteract /\ [][NextField]_vars

\* ---------------------------------------------------------- the properties
\* A window that holds nothing: no capture session, no swapchain and no
\* cached swapchain textures on either device.
HoldsNothing(window) ==
    /\ window.captureWindow = Null
    /\ ~window.swapchain
    /\ window.swapchainImagesOnSubmissionDevice = 0
    /\ window.swapchainImagesOnCompositionDevice = 0
IsComposite(command) == command.op \in {"Copy", "Dispatch"}

\* C1: at the end of the lifecycle pass of an Update (SortWindows), every slot
\* whose shared handle that pass read as zero has no capture session, no
\* swapchain and no cached swapchain textures on either device: a live
\* Window whose slot became empty is closed in that same Update.
C1_EmptySlotsHoldNothing ==
    [][host.frames' # host.frames /\ om.mapped =>
          \A slot \in Slots :
              m_overlayState[slot].handle = 0 =>
                  /\ HoldsNothing(om'.m_windows[slot])
                  /\ ~IsValid(om'.m_windows[slot])
                  /\ gpu'.liveCaptures[slot] = 0
                  /\ gpu'.liveSwapchains[slot] = 0]_vars
\* An Update has closed a window that had a swapchain: the slot is empty, the
\* quad still names the destroyed swapchain, and no session change did it.
C1_ClosedInUpdate ==
    \E slot \in Slots :
        /\ m_overlayState[slot].handle = 0
        /\ om.m_windows[slot].quad.ColorTexture = "dangling"
        /\ HoldsNothing(om.m_windows[slot])
        /\ om.m_ovrSession = 1
        /\ host.frames > 0

\* C2: every window quad that GetLayers appends to the layer list belongs to
\* a window that at that moment has a live capture session and a live
\* swapchain; a window opened in the current Update whose capture has not
\* delivered a first surface is not emitted.
C2_LayersHaveSessionAndSwapchain ==
    [][host.frames' # host.frames =>
          \A k \in DOMAIN host'.layers :
              host'.layers[k].layer = "window" =>
                  /\ om'.m_windows[host'.layers[k].slot].captureWindow # Null
                  /\ om'.m_windows[host'.layers[k].slot].swapchain]_vars

\* C3: each window layer appended by a call of the public GetLayers had its
\* swapchain committed (ovr_CommitTextureSwapChain) during the Update of
\* that same call.
C3_LayersCommitted ==
    \A k \in DOMAIN host.layers :
        host.layers[k].layer = "window" =>
            \E j \in DOMAIN gpu.frameLog :
                gpu.frameLog[j] = [op |-> "Commit", slot |-> host.layers[k].slot]

\* C4: in every Update the copy and dispatch commands of the frame are issued
\* before the Signal of the fence value v on the composition context, the
\* Wait on the submission context follows for the same v, and every
\* ovr_CommitTextureSwapChain of the frame is issued after that Wait.
C4_SignalWaitOrder ==
    /\ \A i \in DOMAIN gpu.frameLog :
          /\ IsComposite(gpu.frameLog[i]) =>
                \A j \in DOMAIN gpu.frameLog :
                    ~IsComposite(gpu.frameLog[j]) => i < j
          /\ gpu.frameLog[i].op = "Signal" =>
                /\ i < Len(gpu.frameLog)
                /\ gpu.frameLog[i + 1] =
                      [op |-> "Wait", value |-> gpu.frameLog[i].value]
          /\ gpu.frameLog[i].op = "Wait" =>
                i > 1 /\ gpu.frameLog[i - 1].op = "Signal"
          /\ gpu.frameLog[i].op = "Commit" =>
                \E j \in 1 .. (i - 1) : gpu.frameLog[j].op = "Wait"
    /\ om.mapped /\ host.frames > 0 /\ ~host.threw =>
          \E i \in DOMAIN gpu.frameLog : gpu.frameLog[i].op = "Signal"
\* A frame that composited a window and committed its swapchain.
C4_CompositedAndCommitted ==
    \E i, j \in DOMAIN gpu.frameLog :
        /\ IsComposite(gpu.frameLog[i])
        /\ gpu.frameLog[j] = [op |-> "Commit", slot |-> gpu.frameLog[i].slot]

\* C5: whenever the engine releases a window's swapchain or its textures
\* opened on the composition device (session change, slot close, swapchain
\* rebuild), it has first flushed the composition queue, so that no
\* composition command that targets the released resource is in flight.
C5_ReleasesAfterFlush == gpu.released = {}

\* C6: when the shared region was not mapped at construction, Initialize,
\* GetLayers and HasFocus open no window, create no device, fence or
\* swapchain, issue no signal or wait, append no layer, and HasFocus is false.
C6_UnmappedDoesNothing ==
    ~om.mapped =>
        /\ om = NewManager(FALSE)
        /\ gpu = NewGpu
        /\ host.layers = <<>>
        /\ ~host.threw
        /\ ~HasFocus
\* The engine is unmapped, the host has given it a session and run a frame,
\* and the shell has imported a window.
C6_UnmappedCalled ==
    /\ ~om.mapped
    /\ host.g_ovrSession # 0
    /\ host.frames > 0
    /\ \E slot \in Slots : m_overlayState[slot].handle # 0

\* C7: at the end of every Update, every slot whose shared handle is a
\* non-zero h has a live capture session that captures exactly h, also when
\* the shell removed the window and imported another handle into the slot
\* between two Updates.
C7_SessionCapturesHandle ==
    [][host.frames' # host.frames /\ om.mapped /\ ~host'.threw =>
          \A slot \in Slots :
              m_overlayState'[slot].handle # 0 =>
                  /\ om'.m_windows[slot].captureWindow # Null
                  /\ ValueOf(om'.m_windows[slot].captureWindow).item =
                        m_overlayState'[slot].handle]_vars

\* C8: each slot holds at most one capture session and at most one
\* swapchain: the sessions and swapchains alive for a slot are exactly the
\* ones its Window points to (none was overwritten while alive), and a slot
\* with a swapchain has a capture session.
C8_OneSessionOneSwapchain ==
    \A slot \in Slots :
        /\ gpu.liveCaptures[slot] =
              IF om.m_windows[slot].captureWindow # Null THEN 1 ELSE 0
        /\ gpu.liveSwapchains[slot] = IF om.m_windows[slot].swapchain THEN 1 ELSE 0
        /\ om.m_windows[slot].swapchain => om.m_windows[slot].captureWindow # Null
\* A slot whose swapchain was rebuilt holds one session and one swapchain.
C8_RebuiltSwapchain ==
    \E r \in gpu.released :
        /\ r.at = "rebuild"
        /\ gpu.liveSwapchains[r.slot] = 1
        /\ gpu.liveCaptures[r.slot] = 1

\* C9: after every Update that completes, for each valid window the shared
\* pose, scale and isMinimized are the window's, and the window's opacity,
\* placement, isInteractable and isFrozen are the shared slot's; until the
\* next Update or shell write the shared slot keeps what the engine wrote.
C9_SyncedAfterUpdate ==
    [][/\ host.frames' # host.frames /\ ~host'.threw =>
             \A slot \in Slots :
                 IsValid(om'.m_windows[slot]) =>
                     /\ m_overlayState'[slot].pose =
                           om'.m_windows[slot].quad.QuadPoseCenter
                     /\ m_overlayState'[slot].scale = om'.m_windows[slot].scale
                     /\ ByteToBool(m_overlayState'[slot].isMinimized) =
                           om'.m_windows[slot].isMinimized
                     /\ om'.m_windows[slot].opacity =
                           m_overlayState'[slot].opacity * 100
                     /\ om'.m_windows[slot].placement =
                           m_overlayState'[slot].placement
                     /\ om'.m_windows[slot].isInteractable =
                           ByteToBool(m_overlayState'[slot].isInteractable)
                     /\ om'.m_windows[slot].isFrozen =
                           ByteToBool(m_overlayState'[slot].isFrozen)
       /\ host.frames' = host.frames /\ shellOps' = shellOps =>
             m_overlayState' = m_overlayState]_vars
\* A completed Update has pushed a minimized state the engine toggled and
\* pulled an opacity the shell changed.
C9_PushedAndPulled ==
    /\ host.frames > 0
    /\ ~host.threw
    /\ \E slot \in Slots :
          /\ IsValid(om.m_windows[slot])
          /\ om.m_windows[slot].isMinimized
          /\ m_overlayState[slot].isMinimized = 1
          /\ m_overlayState[slot].opacity = 50
          /\ om.m_windows[slot].opacity = 5000

\* C10: no engine operation writes a shared slot's handle, isMonitor,
\* opacity, placement, isInteractable or isFrozen; the engine writes only
\* pose, scale and isMinimized, and only for slots with a valid window.
C10_EngineWritesOnlyPoseScaleMinimized ==
    [][shellOps' = shellOps =>
          \A slot \in Slots :
              /\ m_overlayState'[slot].handle = m_overlayState[slot].handle
              /\ m_overlayState'[slot].isMonitor = m_overlayState[slot].isMonitor
              /\ m_overlayState'[slot].opacity = m_overlayState[slot].opacity
              /\ m_overlayState'[slot].placement = m_overlayState[slot].placement
              /\ m_overlayState'[slot].isInteractable =
                    m_overlayState[slot].isInteractable
              /\ m_overlayState'[slot].isFrozen = m_overlayState[slot].isFrozen
              /\ m_overlayState'[slot] # m_overlayState[slot] =>
                    IsValid(om'.m_windows[slot])]_vars
\* The engine has written the pose of a slot the shell imported with a NaN
\* pose.
C10_EngineWrotePose ==
    \E slot \in Slots :
        /\ m_overlayState[slot].handle # 0
        /\ ~IsNan(m_overlayState[slot].pose)

\* The host can run a frame: a session was given to a mapped engine.
FrameReady == om.mapped /\ host.g_ovrSession # 0

\* In the order SortWindows left, entries at equal distances are in ascending
\* slot order.
EqualsInSlotOrder(w) ==
    \A k \in 1 .. (Len(w.m_sortedWindows) - 1) :
        Distance(w, w.m_sortedWindows[k]) = Distance(w, w.m_sortedWindows[k + 1]) =>
            w.m_sortedWindows[k] < w.m_sortedWindows[k + 1]

\* C12: when two or more windows are at equal distance from the head pose,
\* SortWindows orders them among themselves by ascending slot index, whatever
\* order the sort leaves equal entries in.
C12_TiesBySlotIndex ==
    FrameReady =>
        \A tie \in Ties : EqualsInSlotOrder(SortWindows([World EXCEPT !.tie = tie]))

\* The engine as SortWindows leaves it at the start of the Update of a frame
\* with the input in: the windows the hit tests of that Update are made on.
Sorted(in) == SortWindows([World EXCEPT !.gpu.frameLog = <<>>, !.tie = in.tie])
\* Some tracked hand hits the margin-expanded quad of the window of the slot.
IsHit(w, slot, in) == \E side \in Sides : hitTest(w, slot, side, in)
\* The positions in the sorted order of the windows that are hit.
HitPositions(w, in) ==
    {k \in 1 .. Len(w.m_sortedWindows) : IsHit(w, w.m_sortedWindows[k], in)}
\* The window hit in the Update: of the windows that are hit, the nearest,
\* which is the last of them in the back-to-front order.
HitWindow(w, in) ==
    w.m_sortedWindows[CHOOSE k \in HitPositions(w, in) :
                          \A j \in HitPositions(w, in) : j <= k]

\* After the Update that took the sorted engine ws to w: the valid windows
\* with hasFocus set are at most one, and are the window that was hit.
FocusOnlyOnHit(ws, w, in) ==
    ~w.threw =>
        /\ Cardinality({slot \in Slots : IsValid(w.m_windows[slot])
                                            /\ w.m_windows[slot].hasFocus}) <= 1
        /\ \A slot \in Slots :
              IsValid(w.m_windows[slot]) /\ w.m_windows[slot].hasFocus =>
                  /\ HitPositions(ws, in) # {}
                  /\ slot = HitWindow(ws, in)

\* C13: after every Update at most one window has hasFocus set, and every
\* window other than the window hit in that Update has hasFocus false, also
\* a window farther from the head than the hit window and a window that got
\* the focus from a click in an earlier frame.
C13_OnlyHitWindowFocused ==
    FrameReady =>
        \A in \in FrameInputs : FocusOnlyOnHit(Sorted(in), Update(World, in), in)

\* The cursor layer that GetLayers emits after the Update that took the
\* sorted engine ws to w has the head-locked flag of the window that was hit.
CursorFlagFollowsHit(ws, w, in) ==
    ~w.threw =>
        \A k \in DOMAIN GetLayers(w) :
            GetLayers(w)[k].layer = "cursor" =>
                /\ HitPositions(ws, in) # {}
                /\ GetLayers(w)[k].HeadLocked =
                      (w.m_windows[HitWindow(ws, in)].placement = HeadLocked)

\* C14: whenever GetLayers emits the cursor layer, its head-locked flag is set
\* if and only if the window that was hit in the preceding Update has the
\* placement HeadLocked, whichever slot the hit window is in.
C14_CursorFlagOfHitWindow ==
    FrameReady =>
        \A in \in FrameInputs :
            CursorFlagFollowsHit(Sorted(in), Update(World, in), in)

HasCursorLayer(layers) == \E k \in DOMAIN layers : layers[k].layer = "cursor"

\* After the Update that took the sorted engine ws to w, HasFocus() is true
\* exactly when a window was hit, and GetLayers emits the cursor exactly
\* when HasFocus() is true.
FocusIffHit(ws, w, in) ==
    ~w.threw =>
        /\ (w.m_cursorPose # Null) <=> (HitPositions(ws, in) # {})
        /\ HasCursorLayer(GetLayers(w)) <=> (w.m_cursorPose # Null)

\* C15: after every Update, HasFocus() returns true if and only if some
\* window's margin-expanded quad was hit by a tracked hand in that Update, and
\* GetLayers emits the cursor layer if and only if HasFocus() is true; a
\* cursor pose from an earlier frame does not survive an Update in which no
\* window is hit.
C15_FocusIffHit ==
    /\ FrameReady =>
          \A in \in InteractInputs : FocusIffHit(Sorted(in), Update(World, in), in)
    /\ host.frames > 0 /\ ~host.threw => (HasCursorLayer(host.layers) <=> HasFocus)
\* An Update in which no window was hit has dropped the cursor pose of the
\* frame before it: the last cursor position is that of a hit, and there is
\* no cursor pose and no cursor layer now.
C15_CursorDropped ==
    /\ host.frames > 1
    /\ ~host.threw
    /\ om.m_lastCursorPosition = HitA
    /\ ~HasFocus
    /\ ~HasCursorLayer(host.layers)
    /\ om.m_sortedWindows # <<>>

\* The distance (squared) of the quad centre of a window from a head pose:
\* the pose of a head-locked quad is relative to the head, that of any other
\* quad is in the tracking space.
DistanceFromHead(w, slot, head) ==
    IF w.m_windows[slot].placement = HeadLocked
    THEN LengthSq(w.m_windows[slot].quad.QuadPoseCenter.Position)
    ELSE LengthSq(VSub(w.m_windows[slot].quad.QuadPoseCenter.Position, head.Position))

WindowLayers(layers) == {k \in DOMAIN layers : layers[k].layer = "window"}

\* What GetLayers appends after the Update w of a frame whose head pose is
\* head: the occupied slots, each once, back to front, then the cursor if
\* there is a cursor pose.
LayersBackToFront(w, layers, head) ==
    /\ {layers[k].slot : k \in WindowLayers(layers)} =
          {slot \in Slots : w.state[slot].handle # 0}
    /\ \A j, k \in WindowLayers(layers) :
          /\ j # k => layers[j].slot # layers[k].slot
          /\ j < k => DistanceFromHead(w, layers[j].slot, head) >=
                          DistanceFromHead(w, layers[k].slot, head)
    /\ \A k \in DOMAIN layers : layers[k].layer = "cursor" => k = Len(layers)
    /\ w.m_cursorPose # Null => HasCursorLayer(layers)

\* C11: the window layers GetLayers appends are exactly the occupied slots,
\* each once, in order of non-increasing distance of the quad centre from
\* the head pose, followed by the cursor layer as the last element when a
\* cursor pose exists.
C11_LayersBackToFront ==
    [][host.frames' # host.frames /\ ~host'.threw =>
          LayersBackToFront(World', host'.layers, om'.m_lastHeadPose)]_vars

\* The Update that took the sorted engine ws to w changed isMinimized of the
\* window of the slot.
Flipped(ws, w, slot) ==
    w.m_windows[slot].isMinimized # ws.m_windows[slot].isMinimized
\* The window of the slot is the window hit in the Update.
IsHitWindow(ws, slot, in) ==
    HitPositions(ws, in) # {} /\ slot = HitWindow(ws, in)

\* thumb holds the thumbstick buttons as the controllers held them in the
\* frame before, side is the interacting hand.  The hit window, when it is
\* not frozen and the hand trigger of the interacting hand is not held,
\* flips exactly when the thumbstick button of that hand went down between
\* the two frames; a window that is not hit does not flip.
MinimizeOnEdge(ws, w, in, thumb, side) ==
    ~w.threw =>
        \A slot \in Slots :
            IsValid(ws.m_windows[slot]) =>
                IF IsHitWindow(ws, slot, in)
                THEN ~ws.m_windows[slot].isFrozen /\ ~in.hand[side] =>
                         (Flipped(ws, w, slot) <=> (in.thumb[side] /\ ~thumb[side]))
                ELSE ~Flipped(ws, w, slot)

\* C16: for a hovered, non-frozen window, isMinimized flips exactly once for
\* each physical rising edge of the interacting hand's thumbstick button made
\* with no hand trigger held, and never flips without such an edge, also
\* after frames in which no window was hit or the pointer left the window
\* while the button was held or released.
C16_MinimizeFlipsOncePerEdge ==
    FrameReady =>
        \A in \in InteractInputs :
            MinimizeOnEdge(Sorted(in), Update(World, in), in, host.thumb,
                           Update(World, in).m_lastSideToInteract)

\* In the Update that took the sorted engine ws to w the hand trigger of the
\* interacting hand was held: the hit window did not flip.
HeldKeepsMinimized(ws, w, in, side) ==
    ~w.threw =>
        \A slot \in Slots :
            IsValid(ws.m_windows[slot]) /\ IsHitWindow(ws, slot, in) /\ in.hand[side] =>
                ~Flipped(ws, w, slot)

\* C17: in any Update in which the interacting hand's hand trigger is held,
\* the hit window's isMinimized does not change, whether the window is
\* minimized or not.
C17_HandTriggerKeepsMinimized ==
    FrameReady =>
        \A in \in InteractInputs :
            HeldKeepsMinimized(Sorted(in), Update(World, in), in,
                               Update(World, in).m_lastSideToInteract)

\* The last Update composited the window of the slot.
WasComposited(log, slot) ==
    \E j \in DOMAIN log : IsComposite(log[j]) /\ log[j].slot = slot

\* C18: after any Update in which a minimized window was composited its quad
\* size is the minimized icon size in both dimensions, whatever its scale;
\* an Update that minimizes or un-minimizes a window, or finds it minimized,
\* leaves its scale unchanged, and the quad of a composited window that is
\* not minimized is as wide as its scale.
C18_MinimizedQuadIsIcon ==
    [][host.frames' # host.frames /\ ~host'.threw =>
          \A slot \in Slots :
              /\ WasComposited(gpu'.frameLog, slot) =>
                    om'.m_windows[slot].quad.QuadSize[1] =
                        IF om'.m_windows[slot].isMinimized
                        THEN MinimizedIconSize ELSE om'.m_windows[slot].scale
              /\ WasComposited(gpu'.frameLog, slot) /\ om'.m_windows[slot].isMinimized =>
                    om'.m_windows[slot].quad.QuadSize[2] = MinimizedIconSize
              /\ /\ IsValid(om.m_windows[slot])
                 /\ IsValid(om'.m_windows[slot])
                 /\ om.m_windows[slot].isMinimized \/ om'.m_windows[slot].isMinimized
                 => om'.m_windows[slot].scale = om.m_windows[slot].scale]_vars
\* A window that was resized and then minimized has been composited: its
\* scale is not the scale of the import and its quad is the icon.
C18_ResizedThenMinimized ==
    \E slot \in Slots :
        /\ IsValid(om.m_windows[slot])
        /\ om.m_windows[slot].isMinimized
        /\ om.m_windows[slot].scale # ImportScale
        /\ WasComposited(gpu.frameLog, slot)
        /\ om.m_windows[slot].quad.QuadSize = <<MinimizedIconSize, MinimizedIconSize>>
        /\ ~host.threw

\* OVR::Quatf::Rotate applied to the forward axis (0, 0, -1) for a head
\* that is level: a yaw about +Y turns -Z towards -X.
Forward(o) ==
    CASE o.yaw = 0 -> Vec(0, 0, -100)
      [] o.yaw = 90 -> Vec(-100, 0, 0)
      [] o.yaw = 180 -> Vec(0, 0, 100)
      [] OTHER -> Vec(100, 0, 0)
\* The pose lies 1 m in front of the head and has no roll.
InFrontOf(pose, head) ==
    /\ ~IsNan(pose)
    /\ pose.Position = VAdd(head.Position, Forward(head.Orientation))
    /\ pose.Orientation.roll = 0
\* No layer of the list has a NaN pose.
LayersFinite(w, layers) ==
    \A j \in DOMAIN layers :
        IF layers[j].layer = "window"
        THEN ~IsNan(w.m_windows[layers[j].slot].quad.QuadPoseCenter)
        ELSE ~IsNan(ValueOf(w.m_cursorPose))
\* The Update opened the window of the slot from a shared pose that was NaN.
OpenedFromNaN(slot) ==
    /\ ~IsValid(om.m_windows[slot])
    /\ IsValid(om'.m_windows[slot])
    /\ IsNan(m_overlayState[slot].pose)
\* After the Update the window and the shared slot hold a finite pose.
FinitePoses(slot) ==
    /\ ~IsNan(om'.m_windows[slot].quad.QuadPoseCenter)
    /\ ~IsNan(m_overlayState'[slot].pose)
\* The new window stands at the default of its placement: 1 m in front of
\* the head of this frame, or of the frame before, for a world-locked window
\* and 1 m straight ahead for a head-locked one.
AtDefaultPose(slot) ==
    /\ om'.m_windows[slot].placement = WorldLocked =>
          \/ InFrontOf(om'.m_windows[slot].quad.QuadPoseCenter, om'.m_lastHeadPose)
          \/ /\ host.frames > 0
             /\ InFrontOf(om'.m_windows[slot].quad.QuadPoseCenter, om.m_lastHeadPose)
    /\ om'.m_windows[slot].placement = HeadLocked =>
          om'.m_windows[slot].quad.QuadPoseCenter = FrontPose

\* C19: a slot opened from a NaN shared pose gets the default pose of its
\* placement (world-locked: 1 m in front of the head, without roll;
\* head-locked: 1 m straight ahead), so that after the Update the window pose
\* and the shared pose are finite, and no layer has a NaN pose.
C19_DefaultPoseInFrontOfHead ==
    [][host.frames' # host.frames /\ ~host'.threw =>
          /\ LayersFinite(om', host'.layers)
          /\ \A slot \in Slots :
                OpenedFromNaN(slot) =>
                    /\ FinitePoses(slot)
                    /\ ~om'.m_isDraggingWindow /\ ~om'.m_isResizingWindow
                       => AtDefaultPose(slot)]_vars

\* The fields of a window that OpenWindow takes from the shared slot.
OpenedFields(window) ==
    [pose |-> window.quad.QuadPoseCenter, scale |-> window.scale,
     opacity |-> window.opacity, placement |-> window.placement,
     isInteractable |-> window.isInteractable, isFrozen |-> window.isFrozen,
     isMinimized |-> window.isMinimized]
\* Closing the window of the slot and opening it again gives the window the
\* fields it had.
ReopensAlike(w, slot) ==
    OpenedFields(OpenWindow(CloseWindow(w, slot), slot).m_windows[slot]) =
        OpenedFields(w.m_windows[slot])

\* C20: closing the window of a slot and opening it again from the unchanged
\* shared slot yields the pose, scale, opacity, placement, isInteractable,
\* isFrozen and isMinimized the window had before the close.  The shell does
\* not write during a GetLayers call, so a call that finds a window equal to
\* its reopening has to leave it equal to its reopening.
C20_ReopenedWindowIsAlike ==
    [][host.frames' # host.frames =>
          \A slot \in Slots :
              /\ IsValid(om.m_windows[slot])
              /\ ReopensAlike(World, slot)
              /\ IsValid(om'.m_windows[slot])
              => ReopensAlike(World', slot)]_vars

\* C21: in every reachable state, whatever byte the opacity field of the
\* shared slot holds, the opacity of each window lies in [0, 1] (0 .. 10000
\* in 1/10000).
C21_OpacityInUnitInterval ==
    \A slot \in Slots :
        om.m_windows[slot].opacity >= 0 /\ om.m_windows[slot].opacity <= 10000

\* The composite commands of the log for the slot.
CompositesOf(log, slot) ==
    {j \in DOMAIN log : IsComposite(log[j]) /\ log[j].slot = slot}
\* The pixel positions of a surface and the colours a pixel is tried with.
Pixels(size) == (0 .. size[1] - 1) \X (0 .. size[2] - 1)
Colours == {<<0, 0, 0>>, <<255, 255, 255>>}
\* The command composites a window of the given opacity whose surface has
\* the given size as the claim says: a copy when the opacity is 100 percent
\* or more, else a dispatch with the sentinel and the opacity as alpha.
RightCommand(command, opacity) ==
    /\ command.op = "Copy" <=> opacity >= 100 * 100
    /\ command.op = "Dispatch" =>
          /\ command.transparentColor = <<-1, -1, -1>>
          /\ command.alpha = opacity
\* The dispatch writes the alpha of the command to every pixel of the surface.
UniformAlpha(command, size) ==
    command.op = "Dispatch" =>
        \A pos \in Pixels(size), rgb \in Colours :
            IsDispatched(command, pos) /\ ShaderAlpha(command, rgb) = command.alpha

\* C22: a window that is composited gets one command: the plain copy and no
\* dispatch if and only if its opacity is at least 100 percent, otherwise one
\* dispatch with the colour key (-1, -1, -1) and alpha equal to the window's
\* opacity, which writes that alpha to every pixel of the surface.
C22_CopyOrUniformAlpha ==
    [][host.frames' # host.frames /\ ~host'.threw =>
          \A slot \in Slots :
              WasComposited(gpu'.frameLog, slot) =>
                  /\ Cardinality(CompositesOf(gpu'.frameLog, slot)) = 1
                  /\ \A j \in CompositesOf(gpu'.frameLog, slot) :
                        /\ RightCommand(gpu'.frameLog[j], om.m_windows[slot].opacity)
                        /\ UniformAlpha(gpu'.frameLog[j],
                                        om'.m_windows[slot].swapchainSize)]_vars

\* After the Update w of a frame with the input in, the transient state is
\* that of the frame: the head pose is the frame's, and a latch is set only
\* if the frame's input holds what the latch stands for.
FrameFresh(w, in) ==
    /\ w.m_lastHeadPose = in.head
    /\ w.m_cursorPose # Null => \E side \in Sides : in.tracked[side] /\ in.hit[side] # {}
    /\ w.m_isThumbstickPressed => \E side \in Sides : in.thumb[side]
    /\ w.m_isTriggerPressed => \E side \in Sides : in.index[side]
    /\ w.m_isDraggingWindow => \E side \in Sides : in.hand[side] /\ in.index[side]
    /\ w.m_isResizingWindow => in.hand[0] /\ in.hand[1]
\* After the re-initialization w nothing of the frames before it is left.
SessionFresh(w) ==
    /\ w.m_cursorPose = Null
    /\ w.m_sortedWindows = <<>>
    /\ ~w.m_isTriggerPressed /\ ~w.m_isThumbstickPressed
    /\ ~w.m_isDraggingWindow /\ ~w.m_isResizingWindow

\* C23: every Update that returns overwrites the cursor pose, the last head
\* pose and the trigger, thumbstick, dragging and resizing latches with the
\* values of its frame, also when no window is hit or the hit window is
\* frozen, and a session re-initialization leaves no cursor pose, sorted
\* order or latch of the session before.
C23_TransientStateOverwritten ==
    om.mapped =>
        /\ host.g_ovrSession # 0 =>
              \A in \in InteractInputs :
                  ~Update(World, in).threw => FrameFresh(Update(World, in), in)
        /\ SessionFresh(SetSubmissionSession(World, NewSession(host.g_ovrSession)))

\* In the Update that took the sorted engine ws to w, HandleWindowInteractions
\* ran for at most one window, the first that is hit on the walk from the
\* back of the sorted order, and the walk ended there.
FirstHitWins(ws, w, in) ==
    /\ Len(w.interacted) <= 1
    /\ HitPositions(ws, in) # {} <=> w.interacted # <<>>
    /\ w.interacted # <<>> =>
          /\ w.interacted[1] = HitWindow(ws, in)
          /\ w.tested[Len(w.tested)] = w.interacted[1]
          /\ \A j \in 1 .. Len(w.tested) - 1 : ~IsHit(ws, w.tested[j], in)
\* No window that was hit-tested is farther from the head of the frame than
\* the window that was interacted with.
NoFartherTested(ws, w, in) ==
    w.interacted # <<>> =>
        \A j \in 1 .. Len(w.tested) :
            DistanceFromHead(ws, w.tested[j], in.head) <=
                DistanceFromHead(ws, w.interacted[1], in.head)

\* C24: in each Update HandleWindowInteractions is invoked for at most one
\* window, the first window hit by a tracked hand on the walk of the sorted
\* windows from the front, and no window farther from the head than that
\* window is hit-tested.
C24_FirstHitWins ==
    FrameReady =>
        \A in \in InteractInputs :
            ~Update(World, in).threw =>
                /\ FirstHitWins(Sorted(in), Update(World, in), in)
                /\ NoFartherTested(Sorted(in), Update(World, in), in)

\* The engine at the start of the call that follows a call that returned w.
AfterCall(w) ==
    [w EXCEPT !.threw = FALSE, !.injected = <<>>, !.tested = <<>>,
              !.interacted = <<>>, !.tie = SlotOrder]
\* The engine as SortWindows leaves it in the Update of the input in, made on
\* the engine w.
SortedFrom(w, in) == SortWindows([w EXCEPT !.gpu.frameLog = <<>>, !.tie = in.tie])
\* The left clicks a call synthesized: each SendInput is a press and a release.
Clicks(w) == Cardinality({j \in DOMAIN w.injected : w.injected[j].call = "SendInput"})
\* The left hand hits the window of slot 0 inside its pixel bounds and the
\* window is interactable and not minimized.
ClickCondition(ws, in) ==
    /\ hitTest(ws, 0, 0, in)
    /\ in.inside
    /\ ws.m_windows[0].isInteractable
    /\ ~ws.m_windows[0].isMinimized
\* Two consecutive Updates, of the inputs in1 and in2; w1 and w2 are the
\* engine after each and ws2 the engine after SortWindows of the second.  The
\* second synthesizes one click when the index trigger of the left hand
\* went down between the two frames and the click condition holds in a frame
\* that is not a grab or a minimize toggle, and none when the trigger did not
\* go down.
ClickPerEdge(w1, ws2, w2, in1, in2) ==
    ~w1.threw /\ ~w2.threw =>
        /\ Clicks(w2) <= 1
        /\ /\ in2.index[0] /\ ~in1.index[0]
           /\ ClickCondition(ws2, in2)
           /\ ~in2.hand[0] /\ ~in2.thumb[0]
           => Clicks(w2) = 1
        /\ ~(in2.index[0] /\ ~in1.index[0]) => Clicks(w2) = 0

\* C25: one left click is synthesized per rising edge of the index trigger
\* of the interacting hand while the hit maps inside the pixel bounds of an
\* interactable window that is not minimized, and none while the trigger
\* stays held, also when it was first pressed during a grab or outside the
\* bounds of the window.
C25_OneClickPerEdge ==
    FrameReady =>
        \A in1, in2 \in PointInputs :
            ClickPerEdge(Update(World, in1),
                         SortedFrom(AfterCall(Update(World, in1)), in2),
                         Update(AfterCall(Update(World, in1)), in2),
                         in1, in2)

\* The Update that took the sorted engine ws to w was entitled to inject
\* desktop input: a window was hit, by the hand side, inside its pixel
\* bounds, the window is interactable and not minimized, and the frame was
\* neither a grab (hand trigger held on a window that is not frozen) nor a
\* minimize toggle.
MayInject(ws, w, in, slot, side) ==
    /\ hitTest(ws, slot, side, in)
    /\ in.inside
    /\ ws.m_windows[slot].isInteractable
    /\ ~ws.m_windows[slot].isMinimized
    /\ ws.m_windows[slot].isFrozen \/ ~in.hand[side]
    /\ ~Flipped(ws, w, slot)
\* Input is injected only for the window interacted with, when entitled.
InjectsOnlyInside(ws, w, in) ==
    w.injected # <<>> =>
        /\ w.interacted # <<>>
        /\ \A j \in DOMAIN w.injected : w.injected[j].slot = w.interacted[1]
        /\ MayInject(ws, w, in, w.interacted[1], w.m_lastSideToInteract)

\* C26: an Update injects desktop input (SetCursorPos, SetForegroundWindow,
\* SendInput) only if a window was hit, the window is interactable and not
\* minimized, the hit maps inside its pixel bounds and the frame was not
\* consumed by a grab or a minimize toggle; every other Update injects
\* nothing.
C26_InjectionOnlyInside ==
    FrameReady =>
        \A in \in PointInputs :
            ~Update(World, in).threw =>
                InjectsOnlyInside(SortedFrom(World, in), Update(World, in), in)
\* The last Update made a window the foreground window and injected a click.
C26_ClickInjected ==
    /\ ~host.threw
    /\ \E j \in DOMAIN host.injected : host.injected[j].call = "SendInput"
    /\ \E j \in DOMAIN host.injected : host.injected[j].call = "SetForegroundWindow"

\* The call w made the desktop call named call for the window of the slot.
Injected(w, call, slot) ==
    \E j \in DOMAIN w.injected :
        w.injected[j].call = call /\ w.injected[j].slot = slot
\* In the Update that took the sorted engine ws to w the left hand pointed
\* inside the window of slot 0, interactable and not minimized, without a
\* grab or a minimize toggle: the OS cursor was moved, and the OS focus was
\* forwarded if no window was hovered in the Update before.
HoverMovesCursor(ws, w, in) ==
    MayInject(ws, w, in, 0, 0) =>
        /\ Injected(w, "SetCursorPos", 0)
        /\ ws.m_cursorPose = Null => Injected(w, "SetForegroundWindow", 0)

\* C27: in every Update in which the hit maps inside the pixel bounds of an
\* interactable window that is not minimized and no grab is active, the OS
\* cursor is moved there, and the OS input focus is forwarded to the window
\* when it starts being hovered, without a trigger click on it before.
C27_HoverMovesCursor ==
    FrameReady =>
        \A in \in PointInputs :
            ~Update(World, in).threw =>
                HoverMovesCursor(SortedFrom(World, in), Update(World, in), in)

\* The Update that took the engine w0 to w left the position, the scale and
\* isMinimized of the window of the slot as they were.
KeptInPlace(w0, w, slot) ==
    /\ w.m_windows[slot].quad.QuadPoseCenter.Position =
          w0.m_windows[slot].quad.QuadPoseCenter.Position
    /\ w.m_windows[slot].scale = w0.m_windows[slot].scale
    /\ w.m_windows[slot].isMinimized = w0.m_windows[slot].isMinimized

\* C28: while the isFrozen flag of a window, as last pulled from the shared
\* slot, is set and the window stays open, no Update changes its position,
\* its scale or its isMinimized flag, whatever the controllers do.
C28_FrozenStaysPut ==
    FrameReady =>
        \A in \in PointInputs, slot \in Slots :
            /\ IsValid(om.m_windows[slot])
            /\ om.m_windows[slot].isFrozen
            /\ IsValid(Update(World, in).m_windows[slot])
            => KeptInPlace(World, Update(World, in), slot)
\* A frozen window was hit in the last Update while the thumbstick button of
\* the hand was held, and is still not minimized.
C28_FrozenWasPressed ==
    /\ ~host.threw
    /\ IsValid(om.m_windows[0])
    /\ om.m_windows[0].isFrozen
    /\ om.m_cursorPose # Null
    /\ host.thumb[0]
    /\ ~om.m_windows[0].isMinimized

\* The slots an Update from w with the input in tries to open and is refused
\* a capture item for: occupied, not open, and among in.fails.
Refused(w, in) ==
    {slot \in in.fails : w.state[slot].handle # 0 /\ ~IsValid(w.m_windows[slot])}
\* The other occupied slots.
OthersOf(w, refused) == {slot \in Slots \ refused : w.state[slot].handle # 0}
\* The Update that ended in w returned, with the refused slots closed and
\* without a layer, and with every other occupied slot open and in the list
\* of layers.
RefusalIsSlotScoped(w, refused) ==
    /\ ~w.threw
    /\ \A slot \in refused :
          ~IsValid(w.m_windows[slot]) /\ slot \notin Range(w.m_sortedWindows)
    /\ \A slot \in OthersOf(w, refused) :
          IsValid(w.m_windows[slot]) /\ slot \in Range(w.m_sortedWindows)

\* C29: when the capture session of an occupied slot cannot be created, that
\* slot alone is treated as closed: the Update returns without error, opens
\* and lists every other occupied slot, and the failing slot gives no layer.
C29_CaptureFailureIsSlotScoped ==
    FrameReady =>
        \A in \in CaptureInputs :
            Refused(World, in) # {} =>
                RefusalIsSlotScoped(Update(World, in), Refused(World, in))

\* The number of times slot occurs in the list.
Occurrences(list, slot) == Cardinality({k \in 1 .. Len(list) : list[k] = slot})
\* The runtime's ovr_CommitTextureSwapChain was called in the frame of log.
Committed(log) == \E k \in 1 .. Len(log) : log[k].op = "Commit"
\* The Update with the input in is the one a frame step has run.
IsTheCall(w) == om' = ManagerOf(w) /\ gpu' = w.gpu /\ host'.threw = w.threw
\* Update ended in w with a failure: no swapchain was committed in the call
\* and no capture item was asked for twice.
AbortedAtFailure(w) ==
    /\ ~Committed(w.gpu.frameLog)
    /\ \A slot \in Slots : Occurrences(w.opening, slot) <= 1

SurfaceSeen(w0, slot) ==
    getSurface(ValueOf(w0.m_windows[slot].captureWindow)).m_lastCapturedSurface
\* The window of the slot is open in w0, stays open, and the size of its
\* captured surface is not the size of its swapchain (or it has none).
SizeChanged(w0, slot) ==
    /\ IsValid(w0.m_windows[slot])
    /\ w0.state[slot].handle # 0
    /\ SurfaceSeen(w0, slot) # <<>>
    /\ \/ ~w0.m_windows[slot].swapchain
       \/ w0.m_windows[slot].swapchainSize # SurfaceSeen(w0, slot)
\* After the Update that ended in w the slot has one swapchain, of the given
\* size, with its textures cached on both devices.
SwapchainRecreated(w, slot, size) ==
    /\ w.m_windows[slot].swapchain
    /\ w.gpu.liveSwapchains[slot] = 1
    /\ w.m_windows[slot].swapchainSize = size
    /\ w.m_windows[slot].swapchainImagesOnSubmissionDevice = SwapChainLength
    /\ w.m_windows[slot].swapchainImagesOnCompositionDevice = SwapChainLength
\* The Update created a capture session for the slot.
CaptureRecreated(w, slot) == slot \in Range(w.opening)

\* C31: whenever the captured content size of an open window changes (the
\* first captured frame after the open included), the Update recreates both
\* the swapchain of the slot and its capture session; after the composite
\* step swapchainSize is the size of the latest surface and both texture
\* lists have the length of the swapchain.
C31_SizeChangeRecreatesBoth ==
    FrameReady =>
        \A slot \in Slots :
            SizeChanged(World, slot) /\ ~Update(World, NoHands).threw =>
                /\ SwapchainRecreated(Update(World, NoHands), slot,
                                      SurfaceSeen(World, slot))
                /\ CaptureRecreated(Update(World, NoHands), slot)

\* The greatest of a set of import numbers.
Latest(ids) == CHOOSE id \in ids : \A other \in ids : other <= id

\* C32: with an import written field by field, the handle last, and a
\* removal writing the handle first, in every interleaving with Update the
\* engine never opens a window from a slot record that mixes fields of two
\* different imports, when the engine had observed the slot empty before the
\* import.
C32_OpenedFromOneImport ==
    pc.opened # {} /\ Latest(pc.opened) \in pc.clean =>
        pc.opened = {Latest(pc.opened)}
\* OpenWindow has opened a window from the fields of the second import into
\* a slot, begun after the engine had seen the slot empty; its test of the
\* handle fell between two writes of an import.
C32_OpenedSecondImport ==
    /\ pc.opened \cap pc.clean # {}
    /\ Latest(pc.opened) > 1
    /\ \E slot \in Slots : IsValid(om.m_windows[slot])

\* In the Update that took the sorted engine ws to w: the hand that
\* interacted hits the window interacted with; it is the hand of the Update
\* before when both hands hit that window, and it is another hand only when
\* the hand of the Update before does not hit that window.  Without an
\* interaction the hand is the one of the Update before.
HandSticks(ws, w, in) ==
    /\ w.interacted = <<>> => w.m_lastSideToInteract = ws.m_lastSideToInteract
    /\ w.interacted # <<>> =>
          /\ hitTest(ws, w.interacted[1], w.m_lastSideToInteract, in)
          /\ (\A side \in Sides : hitTest(ws, w.interacted[1], side, in)) =>
                w.m_lastSideToInteract = ws.m_lastSideToInteract
          /\ w.m_lastSideToInteract # ws.m_lastSideToInteract =>
                ~hitTest(ws, w.interacted[1], ws.m_lastSideToInteract, in)

\* C33: when the aim rays of both tracked hands hit the window an Update
\* interacts with, the hand used is the hand that interacted last
\* (m_lastSideToInteract, the left hand at first); the interacting hand
\* changes only in an Update in which the hand that interacted last is not
\* tracked or misses that window while the other hand hits it.
C33_LastHandKeepsTheWindow ==
    /\ host.frames = 0 => om.m_lastSideToInteract = 0
    /\ FrameReady =>
          \A in \in HandInputs :
              ~Update(World, in).threw =>
                  HandSticks(SortedFrom(World, in), Update(World, in), in)
\* The right hand has taken over: it was the hand of the last interaction
\* and the cursor is on a window.
C33_RightHandTookOver ==
    /\ ~host.threw
    /\ om.m_cursorPose # Null
    /\ om.m_lastSideToInteract = 1

\* The input state with everything but ControllerType and TimeInSeconds
\* zeroed.
Blocked(inputState) ==
    [ControllerType |-> inputState.ControllerType,
     TimeInSeconds |-> inputState.TimeInSeconds,
     Buttons |-> {},
     IndexTrigger |-> [s \in Sides |-> 0],
     HandTrigger |-> [s \in Sides |-> 0],
     Thumbstick |-> <<0, 0>>]

\* C34: with the hooks installed and a session initialized, a successful
\* call of the application to ovr_GetInputState returns, while HasFocus() is
\* true, a state with all buttons, triggers and thumbsticks zeroed and only
\* ControllerType and TimeInSeconds kept, and the unmodified state while
\* HasFocus() is false; what the engine reads through its dispatch table
\* is never zeroed.
C34_InputBlockedWhileFocused ==
    host.g_ovrSession # 0 =>
        \A inputState \in RuntimeInputs :
            /\ HasFocus => hook_GetInputState(inputState) = Blocked(inputState)
            /\ ~HasFocus => hook_GetInputState(inputState) = inputState
            /\ CallGetInputState(DispatchTable.ovr_GetInputState, inputState) =
                  inputState
\* While an overlay had the focus the application read the controllers and
\* got a state without buttons, and the engine had minimized the window on
\* the thumbstick button it read itself.
C34_BlockedForTheApplication ==
    /\ HasFocus
    /\ host.input.TimeInSeconds = 2
    /\ host.input.Buttons = {}
    /\ host.thumb[0]
    /\ om.m_windows[0].isMinimized

\* The thread groups of the dispatch cover a surface of the given size.
CoversSurface(command, size) ==
    /\ command.x * GroupThreads >= size[1]
    /\ command.y * GroupThreads >= size[2]

\* C35: for every captured surface of width W >= 1 and height H >= 1 the
\* compute dispatch of the transparency path covers the whole surface: the
\* thread groups in X times 32 are at least W and those in Y times 32 at
\* least H, with the group counts computed by the integer division of the
\* code.
C35_DispatchCoversSurface ==
    \A j \in DOMAIN gpu.frameLog :
        gpu.frameLog[j].op = "Dispatch" =>
            CoversSurface(gpu.frameLog[j],
                          om.m_windows[gpu.frameLog[j].slot].swapchainSize)

\* C36: every slot SortWindows puts in the sorted list has a window with a
\* live capture session, so that HandleInteractions never asks a missing
\* session for its size, in every interleaving with the shell, a removal
\* between the handle test of SortWindows and the read of the handle in
\* OpenWindow included.
C36_SortedWindowsAreCaptured ==
    pc.engine.at = "rest" =>
        \A k \in DOMAIN pc.engine.distances :
            om.m_windows[pc.engine.distances[k][2]].captureWindow # Null

\* The swapchain handle in the quad of the window is null or the swapchain
\* the window holds.
ColorTextureIsLive(window) ==
    \/ window.quad.ColorTexture = "null"
    \/ window.quad.ColorTexture = "live" /\ window.swapchain

\* C37: no layer GetLayers emits references a destroyed swapchain: in every
\* reachable state the swapchain handle in the quad of each window is null or
\* the window's current live swapchain, also after a slot is closed and
\* opened again or the session is initialized again, before the first
\* surface of the new capture arrives.
C37_NoDestroyedSwapchainInQuad ==
    \A slot \in Slots : ColorTextureIsLive(om.m_windows[slot])

\* The fence commands of a frame's log with the given operation.
FenceValues(log, op) == {log[j].value : j \in {k \in DOMAIN log : log[k].op = op}}

\* C38: the fence value is strictly increasing over the life of the engine:
\* every Signal of Update or FlushCompositionDevice uses a value greater than
\* every value signaled or waited for before, across Updates, flushes and
\* session re-initializations (which create the fence again at 0 without
\* resetting the counter), so a Wait never targets a value an earlier Signal
\* had reached.
C38_FenceValueIncreases ==
    [][/\ gpu.signaled <= om.m_submissionFenceValue
       /\ om'.m_submissionFenceValue >= om.m_submissionFenceValue
       /\ host.frames' # host.frames =>
             /\ FenceValues(gpu'.frameLog, "Signal") \subseteq
                   {om'.m_submissionFenceValue} \ {om.m_submissionFenceValue}
             /\ FenceValues(gpu'.frameLog, "Wait") \subseteq
                   FenceValues(gpu'.frameLog, "Signal")
       /\ om'.m_ovrSession # om.m_ovrSession /\ om.m_compositionDevice =>
             om'.m_submissionFenceValue > om.m_submissionFenceValue]_vars
\* After a session re-initialization an Update has signaled the new fence
\* with a value that continues the count of the session before.
C38_SignaledAfterReinit ==
    /\ om.m_ovrSession = 2
    /\ ~host.threw
    /\ gpu.signaled = om.m_submissionFenceValue
    /\ gpu.signaled >= 3

\* The window of the slot has been composited with the surface its capture
\* session last handed out: UpdateWindows went past the query of the bounds
\* and placed the quad on a viewport of that size.
CompositedFromSurface(slot) ==
    LastSurface(om, slot) # <<>> =>
        /\ om.m_windows[slot].swapchain
        /\ om.m_windows[slot].quad.Viewport = LastSurface(om, slot)
IsMonitorSlot(slot) ==
    /\ IsValid(om.m_windows[slot])
    /\ om.m_windows[slot].captureWindow # Null
    /\ om.m_windows[slot].hwnd = 0
    /\ om.m_windows[slot].monitor # 0

\* C39: for a slot marked isMonitor (null window handle, only the monitor
\* handle set) no operation of Update is issued against the null window
\* handle: the query of the bounds in compositing and the cursor and focus
\* calls use a handle valid for the slot, so a monitor slot is composited and
\* committed like a window slot.
C39_MonitorSlotIsComposited ==
    \A slot \in Slots : IsMonitorSlot(slot) => CompositedFromSurface(slot)

\* The left hand holds the window of a slot by the hand trigger and the
\* index trigger, the ray hitting it at hitPos: a one-handed drag.
Drag(slot, hitPos) ==
    [LeftAims(slot, hitPos) EXCEPT !.inside = TRUE,
                                   !.index = Both(TRUE, FALSE),
                                   !.hand = Both(TRUE, FALSE)]
\* Two consecutive frames are drawn from these: no hand tracked, a drag of
\* either window at two positions, a two-handed grab of either window with
\* the hands at two distances.
GrabInputs ==
    {NoHands}
    \cup {Drag(slot, hitPos) : slot \in Slots, hitPos \in {HitA, HitB}}
    \cup {TwoHanded(slot, apart) : slot \in Slots, apart \in {20, 40}}

\* HandleInteractions took the sorted engine ws to w after the Update before
\* it had returned w1: a window it moved is the one the call of
\* HandleWindowInteractions in w1 left the dragging latch on, a window it
\* resized the one that call left the resizing latch on.
GrabContinues(w1, ws, w) ==
    \A slot \in Slots :
        /\ w.m_windows[slot].quad.QuadPoseCenter.Position #
              ws.m_windows[slot].quad.QuadPoseCenter.Position
           => w1.interacted = <<slot>> /\ w1.m_isDraggingWindow
        /\ w.m_windows[slot].scale # ws.m_windows[slot].scale
           => w1.interacted = <<slot>> /\ w1.m_isResizingWindow
GrabContinuesIn(w1, ws, in) == GrabContinues(w1, ws, UpdateInteract(ws, in))
GrabContinuesAfter(w1, in) ==
    ~w1.threw /\ w1.interacted # <<>> =>
        GrabContinuesIn(w1, SortedFrom(AfterCall(w1), in), in)

\* C40: a one-handed drag moves a window, and a two-handed resize changes its
\* scale, only in an Update whose immediately preceding call of
\* HandleWindowInteractions ended in the same grab mode on the same window:
\* the first frame of a grab only arms the latch, and a latch armed on one
\* window never moves or resizes another.  Stated for two consecutive
\* Updates of which the first called HandleWindowInteractions.
C40_GrabContinuesOnSameWindow ==
    FrameReady =>
        \A in1 \in GrabInputs : \A in2 \in GrabInputs :
            GrabContinuesAfter(Update(World, in1), in2)

====
